---- MODULE Spec2Model ----
(***************************************************************************)
(* Obalomat: the handler layer over the relational store.                  *)
(*                                                                         *)
(* The store is a set of append-only tables (no handler deletes a row);    *)
(* a row's id is its position in the table (serial primary key), and an    *)
(* INSERT the store refuses leaves its place without a row.  Every         *)
(* handler is a sequence of store statements separated by awaits.  A call  *)
(* is a record holding the handler's input, its position (pc), the rows it *)
(* has read so far (loc), the response on its way to it (resp), and its    *)
(* outcome (res, out).  The store executes one statement of one call in    *)
(* one step; the handler runs on from the response in the same step, or in *)
(* a later one where it then reads the clock.  A handler run alone is the  *)
(* composition of its steps.                                               *)
(***************************************************************************)
EXTENDS Integers, Sequences, FiniteSets, TLC

\* ------------------------------------------------------------------ bounds
MaxUsers == 3
MaxInquiries == 1
MaxQuotes == 2
MaxMessages == 1
MaxClock == 2
MaxIds == 2
NProc == 2
MaxEmails == 2
MaxTexts == 2
MaxListedMessages == 2
MaxProfiles == 2
MaxRatings == 2
MaxRatedInquiries == 2
MaxAttachments == 1
MaxSentInquiries == 2
MaxUpdatedUsers == 2

VARIABLES
    users,            \* usersTable: <<[email, password_hash, company_name, contact_person,
                      \*   phone, role, location, description, website, created_at, updated_at]>>
    supplierProfiles, \* supplierProfilesTable: <<[user_id, packaging_types, materials,
                      \*   min_order_quantity, personalization_available, price_range_min,
                      \*   price_range_max, delivery_time_days, certifications, created_at,
                      \*   updated_at]>>
    inquiries,        \* inquiriesTable: <<[buyer_id, status, updated_at]>>
    inquirySuppliers, \* inquirySuppliersTable: <<[inquiry_id, supplier_id]>>
    quotes,           \* quotesTable: <<[inquiry_id, supplier_id]>>
    messages,         \* messagesTable: <<[sender_id, recipient_id, inquiry_id, sent_at, read_at]>>
    fileAttachments,  \* fileAttachmentsTable: <<[inquiry_id, message_id, filename, file_path,
                      \*   file_size, mime_type]>>
    ratings,          \* ratingsTable: <<[rater_id, rated_id, inquiry_id, rating]>>
    now,              \* the wall clock read by new Date() / defaultNow()
    calls,            \* calls[p]: the handler call process p is executing or has finished
    before            \* the store as it was when the last handler run alone began

\* the tables of the store
tables ==
    <<users, supplierProfiles, inquiries, inquirySuppliers, quotes, messages, fileAttachments,
      ratings>>

vars == <<tables, now, calls, before>>

\* ------------------------------------------------------------------ values
NULL == 0
\* an optional input that is left out (undefined)
ABSENT == -1

Procs == 1..NProc
UserIds == 1..(MaxUsers + 1)
InquiryIds == 1..(MaxInquiries + 1)
MessageIds == 1..(MaxMessages + 1)

userRoleEnum == {"buyer", "supplier"}
inquiryStatusEnum == {"pending", "responded", "closed"}
statusOrder == <<"pending", "responded", "closed">>

OK == <<"ok">>

\* rating: z.number().int().min(1).max(5)
ratingMin == 1
ratingMax == 5
\* the ratings a request is made with
RatingInputs == {ratingMin, ratingMax}

\* statusOrder.indexOf(s)
indexOf(s) == CHOOSE k \in 1..Len(statusOrder) : statusOrder[k] = s

Store ==
    [users |-> users, supplierProfiles |-> supplierProfiles, inquiries |-> inquiries,
     inquirySuppliers |-> inquirySuppliers, quotes |-> quotes, messages |-> messages,
     fileAttachments |-> fileAttachments, ratings |-> ratings]

EmptyStore ==
    [users |-> <<>>, supplierProfiles |-> <<>>, inquiries |-> <<>>, inquirySuppliers |-> <<>>,
     quotes |-> <<>>, messages |-> <<>>, fileAttachments |-> <<>>, ratings |-> <<>>]

\* the place of a serial value that a refused INSERT has consumed: the sequence of the
\* table has moved on and no row has this id
noRow == [noRow |-> TRUE]

\* db.select().from(table).where(eq(table.id, id)): the row exists
HasRow(table, id) == id \in 1..Len(table) /\ table[id] # noRow

\* ------------------------------------------------------------------ calls
\* resp: the response of the store to the call's statement while it is on its way to the
\* handler (<<>>: none)
IdleCall ==
    [op |-> "idle", pc |-> "done", in |-> <<>>, loc |-> <<>>, res |-> <<>>, out |-> NULL,
     resp |-> <<>>]

NewCall(op, pc, in, loc) ==
    [op |-> op, pc |-> pc, in |-> in, loc |-> loc, res |-> <<>>, out |-> NULL, resp |-> <<>>]

\* throw new Error(msg): every handler's catch logs and rethrows
Throw(c, st, msg) == [call |-> [c EXCEPT !.pc = "done", !.res = msg], st |-> st]
\* the statement completed; continue at the next one
Goto(c, st, pc) == [call |-> [c EXCEPT !.pc = pc], st |-> st]
\* return value
Return(c, st, out) == [call |-> [c EXCEPT !.pc = "done", !.res = OK, !.out = out], st |-> st]

Running(c) == c.pc # "done"
Succeeded(c) == c.pc = "done" /\ c.res = OK
Failed(c) == c.pc = "done" /\ c.op # "idle" /\ c.res # OK

\* ------------------------------------------------------------------ createUser
\* the unique constraint on users.email
EmailTakenNever(st, email) == FALSE
EmailTaken(st, email) ==
    \E k \in 1..Len(st.users) : HasRow(st.users, k) /\ st.users[k].email = email

\* (the id of the row is drawn from the serial before the constraint is checked, and a
\* refused INSERT does not give it back)
createUser(c, st, t) ==
    IF EmailTaken(st, c.in.email)
    THEN Throw(c, [st EXCEPT !.users = Append(@, noRow)],
               <<"duplicate key value violates unique constraint">>)
    ELSE Return(c, [st EXCEPT !.users = Append(@,
                    [email |-> c.in.email, password_hash |-> c.in.password_hash,
                     company_name |-> c.in.company_name,
                     contact_person |-> c.in.contact_person, phone |-> c.in.phone,
                     role |-> c.in.role, location |-> c.in.location,
                     description |-> c.in.description, website |-> c.in.website,
                     created_at |-> t, updated_at |-> t])],
                Len(st.users) + 1)

\* ------------------------------------------------------------------ createInquiry
\* inArray(usersTable.id, ids): the user ids selected (each user row at most once)
SuppliersFound(st, ids) ==
    {u \in 1..Len(st.users) : HasRow(st.users, u) /\ \E k \in 1..Len(ids) : ids[k] = u}

\* suppliers.length !== input.supplier_ids.length
AllFoundAlways(st, ids) == TRUE
AllFound(st, ids) == Cardinality(SuppliersFound(st, ids)) = Len(ids)

\* suppliers.filter(s => s.role !== 'supplier')
nonSuppliersNone(st, ids) == {}
nonSuppliers(st, ids) == {u \in SuppliersFound(st, ids) : st.users[u].role # "supplier"}

\* input.supplier_ids.map(supplierId => ({inquiry_id, supplier_id}))
inquirySupplierRecordsFirstOnly(id, ids) ==
    <<[inquiry_id |-> id, supplier_id |-> ids[1]]>>
inquirySupplierRecords(id, ids) ==
    [k \in 1..Len(ids) |-> [inquiry_id |-> id, supplier_id |-> ids[k]]]

createInquiry(c, st, t) ==
    CASE c.pc = "selectBuyer" ->
           IF ~HasRow(st.users, c.in.buyer_id) THEN Throw(c, st, <<"Buyer not found">>)
           ELSE IF st.users[c.in.buyer_id].role # "buyer" THEN Throw(c, st, <<"User is not a buyer">>)
           ELSE IF Len(c.in.supplier_ids) > 0 THEN Goto(c, st, "selectSuppliers")
           ELSE Goto(c, st, "insertInquiry")
      [] c.pc = "selectSuppliers" ->
           IF ~AllFound(st, c.in.supplier_ids)
           THEN Throw(c, st, <<"One or more suppliers not found">>)
           ELSE IF nonSuppliers(st, c.in.supplier_ids) # {}
           THEN Throw(c, st, <<"One or more users are not suppliers">>)
           ELSE Goto(c, st, "insertInquiry")
      [] c.pc = "insertInquiry" ->
           LET row == [buyer_id |-> c.in.buyer_id, status |-> "pending", updated_at |-> t]
               id == Len(st.inquiries) + 1
               st2 == [st EXCEPT !.inquiries = Append(@, row)]
               inquiry == [id |-> id, status |-> "pending", updated_at |-> t]
               c2 == [c EXCEPT !.loc = [inquiry |-> inquiry]]
           IN IF Len(c.in.supplier_ids) > 0 THEN Goto(c2, st2, "insertInquirySuppliers")
              ELSE Return(c2, st2, inquiry)
      [] c.pc = "insertInquirySuppliers" ->
           Return(c,
                  [st EXCEPT !.inquirySuppliers =
                       @ \o inquirySupplierRecords(c.loc.inquiry.id, c.in.supplier_ids)],
                  c.loc.inquiry)

\* ------------------------------------------------------------------ createQuote
\* the supplier received this inquiry: a row of inquiry_suppliers for (inquiry, supplier)
WasSentAlways(st, inquiry_id, supplier_id) == TRUE
WasSent(st, inquiry_id, supplier_id) ==
    \E k \in 1..Len(st.inquirySuppliers) :
        /\ st.inquirySuppliers[k].inquiry_id = inquiry_id
        /\ st.inquirySuppliers[k].supplier_id = supplier_id

\* if (inquiry[0].status === 'pending')
WasPendingAlways(status) == TRUE
WasPendingNever(status) == FALSE
WasPending(status) == status = "pending"

\* db.insert(quotesTable).values(..): the table after the INSERT
insertQuoteOverwriting(rows, row) == <<row>>
insertQuote(rows, row) == Append(rows, row)

\* (t: the clock when the store executes the statement; d: the clock when its response
\* reaches the handler, which then runs on to its next await)
createQuote(c, st, t, d) ==
    CASE c.pc = "selectSupplier" ->
           IF ~HasRow(st.users, c.in.supplier_id) THEN Throw(c, st, <<"Supplier not found">>)
           ELSE IF st.users[c.in.supplier_id].role # "supplier"
           THEN Throw(c, st, <<"User is not a supplier">>)
           ELSE Goto(c, st, "selectInquiry")
      [] c.pc = "selectInquiry" ->
           IF ~HasRow(st.inquiries, c.in.inquiry_id) THEN Throw(c, st, <<"Inquiry not found">>)
           ELSE Goto([c EXCEPT !.loc = [status |-> st.inquiries[c.in.inquiry_id].status, quote |-> NULL]],
                     st, "selectInquirySupplier")
      [] c.pc = "selectInquirySupplier" ->
           IF ~WasSent(st, c.in.inquiry_id, c.in.supplier_id)
           THEN Throw(c, st, <<"Supplier was not sent inquiry">>)
           ELSE Goto(c, st, "insertQuote")
      [] c.pc = "insertQuote" ->
           LET row == [inquiry_id |-> c.in.inquiry_id, supplier_id |-> c.in.supplier_id]
               id == Len(st.quotes) + 1
               st2 == [st EXCEPT !.quotes = insertQuote(@, row)]
               c2 == [c EXCEPT !.loc = [status |-> c.loc.status, quote |-> id]]
               \* .set({status: 'responded', updated_at: new Date()})
               c3 == [c EXCEPT !.loc = [status |-> c.loc.status, quote |-> id,
                                        updated_at |-> d]]
           IN IF WasPending(c.loc.status) THEN Goto(c3, st2, "updateStatus")
              ELSE Return(c2, st2, id)
      [] c.pc = "updateStatus" ->
           Return(c,
                  [st EXCEPT !.inquiries[c.in.inquiry_id].status = "responded",
                             !.inquiries[c.in.inquiry_id].updated_at = c.loc.updated_at],
                  c.loc.quote)

\* ------------------------------------------------------------------ updateInquiryStatus
\* the transition guard: the handler throws when newIndex < currentIndex
TransitionAllowedAny(currentStatus, newStatus) == TRUE
TransitionAllowed(currentStatus, newStatus) == ~(indexOf(newStatus) < indexOf(currentStatus))

updateInquiryStatus(c, st, t, d) ==
    CASE c.pc = "selectInquiry" ->
           IF ~HasRow(st.inquiries, c.in.id) THEN Throw(c, st, <<"Inquiry not found">>)
           ELSE LET currentStatus == st.inquiries[c.in.id].status
                IN IF ~TransitionAllowed(currentStatus, c.in.status)
                   THEN Throw(c, st, <<"Invalid status transition", currentStatus, c.in.status>>)
                   \* .set({status: input.status, updated_at: new Date()})
                   ELSE Goto([c EXCEPT !.loc = [status |-> currentStatus, updated_at |-> d]],
                             st, "updateInquiry")
      [] c.pc = "updateInquiry" ->
           Return(c,
                  [st EXCEPT !.inquiries[c.in.id].status = c.in.status,
                             !.inquiries[c.in.id].updated_at = c.loc.updated_at],
                  [id |-> c.in.id, status |-> c.in.status, updated_at |-> c.loc.updated_at])

\* ------------------------------------------------------------------ createMessage
\* input.inquiry_id !== null
InquiryIdProvidedNever(input) == FALSE
InquiryIdProvided(input) == input.inquiry_id # NULL

createMessage(c, st, t) ==
    CASE c.pc = "selectSender" ->
           IF ~HasRow(st.users, c.in.sender_id) THEN Throw(c, st, <<"Sender does not exist">>)
           ELSE Goto(c, st, "selectRecipient")
      [] c.pc = "selectRecipient" ->
           IF ~HasRow(st.users, c.in.recipient_id) THEN Throw(c, st, <<"Recipient does not exist">>)
           ELSE IF InquiryIdProvided(c.in) THEN Goto(c, st, "selectInquiry")
           ELSE Goto(c, st, "insertMessage")
      [] c.pc = "selectInquiry" ->
           IF ~HasRow(st.inquiries, c.in.inquiry_id) THEN Throw(c, st, <<"Inquiry does not exist">>)
           ELSE Goto(c, st, "insertMessage")
      [] c.pc = "insertMessage" ->
           LET row == [sender_id |-> c.in.sender_id, recipient_id |-> c.in.recipient_id,
                       inquiry_id |-> c.in.inquiry_id, sent_at |-> t, read_at |-> NULL]
           IN Return(c, [st EXCEPT !.messages = Append(@, row)], Len(st.messages) + 1)

\* ------------------------------------------------------------------ markMessageAsRead
\* message.recipient_id !== userId
IsRecipientAnyone(message, userId) == TRUE
IsRecipient(message, userId) == message.recipient_id = userId

\* the UPDATE's WHERE clause (the id is matched by the caller):
\* recipient_id = userId AND read_at IS NULL
UpdateWhereNoNullTest(message, userId) == message.recipient_id = userId
UpdateWhere(message, userId) == message.recipient_id = userId /\ message.read_at = NULL

markMessageAsRead(c, st, t, d) ==
    CASE c.pc = "selectMessage" ->
           IF ~HasRow(st.messages, c.in.messageId) THEN Throw(c, st, <<"Message not found">>)
           ELSE LET message == st.messages[c.in.messageId]
                IN IF ~IsRecipient(message, c.in.userId)
                   THEN Throw(c, st, <<"User is not authorized to mark this message as read">>)
                   ELSE IF message.read_at # NULL THEN Return(c, st, message)
                   \* .set({read_at: new Date()})
                   ELSE Goto([c EXCEPT !.loc = [read_at |-> d]], st, "updateMessage")
      [] c.pc = "updateMessage" ->
           IF UpdateWhere(st.messages[c.in.messageId], c.in.userId)
           THEN LET st2 == [st EXCEPT !.messages[c.in.messageId].read_at = c.loc.read_at]
                IN Return(c, st2, st2.messages[c.in.messageId])
           ELSE Throw(c, st, <<"Failed to mark message as read">>)

\* ------------------------------------------------------------------ createRating
\* SELECT id, role FROM users WHERE id = rater_id UNION SELECT ... WHERE id = rated_id:
\* the ids of the rows returned (UNION returns a row once)
raterAndRated(st, input) ==
    {u \in 1..Len(st.users) :
        HasRow(st.users, u) /\ (u = input.rater_id \/ u = input.rated_id)}

\* rater.role === rated.role
SameRoleNever(st, input) == FALSE
SameRole(st, input) == st.users[input.rater_id].role = st.users[input.rated_id].role

\* SELECT FROM ratings WHERE rater_id = .. AND rated_id = .. AND inquiry_id = ..
existingRatingNone(st, input) == {}
existingRating(st, input) ==
    {k \in 1..Len(st.ratings) :
        /\ st.ratings[k].rater_id = input.rater_id
        /\ st.ratings[k].rated_id = input.rated_id
        /\ st.ratings[k].inquiry_id = input.inquiry_id}

createRating(c, st, t) ==
    CASE c.pc = "selectUsers" ->
           IF Cardinality(raterAndRated(st, c.in)) # 2
           THEN Throw(c, st, <<"One or both users do not exist">>)
           ELSE IF c.in.rater_id \notin raterAndRated(st, c.in)
                   \/ c.in.rated_id \notin raterAndRated(st, c.in)
           THEN Throw(c, st, <<"User validation failed">>)
           ELSE IF SameRole(st, c.in)
           THEN Throw(c, st, <<"Rater and rated users must have different roles">>)
           ELSE IF c.in.inquiry_id # NULL THEN Goto(c, st, "selectInquiry")
           ELSE Goto(c, st, "insertRating")
      [] c.pc = "selectInquiry" ->
           IF ~HasRow(st.inquiries, c.in.inquiry_id)
           THEN Throw(c, st, <<"Inquiry does not exist">>)
           ELSE Goto(c, st, "selectRating")
      [] c.pc = "selectRating" ->
           IF existingRating(st, c.in) # {}
           THEN Throw(c, st, <<"Rating already exists for this inquiry between these users">>)
           ELSE Goto(c, st, "insertRating")
      [] c.pc = "insertRating" ->
           Return(c, [st EXCEPT !.ratings = Append(@,
                         [rater_id |-> c.in.rater_id, rated_id |-> c.in.rated_id,
                          inquiry_id |-> c.in.inquiry_id, rating |-> c.in.rating])],
                  Len(st.ratings) + 1)

\* ------------------------------------------------------------------ createSupplierProfile
\* a price column is numeric(10, 2) and nullable: it holds no amount, written <<>>, or
\* one amount a, written <<a>>; 0.00 is an amount and not null.  Amounts are counted in
\* thousandths here (the forms' amounts are positive and within the column's range).  A
\* null price of the input gives the column no text (input.f?.toString()), and the store
\* keeps the text of an amount rounded to hundredths, a half rounded up
numeric2(v) == IF v = NULL THEN <<>> ELSE <<((v + 5) \div 10) * 10>>

\* SELECT FROM supplier_profiles WHERE user_id = ..
existingProfileNone(st, user_id) == {}
existingProfile(st, user_id) ==
    {k \in 1..Len(st.supplierProfiles) : st.supplierProfiles[k].user_id = user_id}

createSupplierProfile(c, st, t) ==
    CASE c.pc = "selectUser" ->
           IF ~HasRow(st.users, c.in.user_id)
           THEN Throw(c, st, <<"User not found", c.in.user_id>>)
           ELSE IF st.users[c.in.user_id].role # "supplier"
           THEN Throw(c, st, <<"User is not a supplier", c.in.user_id>>)
           ELSE Goto(c, st, "selectProfile")
      [] c.pc = "selectProfile" ->
           IF existingProfile(st, c.in.user_id) # {}
           THEN Throw(c, st, <<"Supplier profile already exists for user", c.in.user_id>>)
           ELSE Goto(c, st, "insertProfile")
      [] c.pc = "insertProfile" ->
           Return(c, [st EXCEPT !.supplierProfiles = Append(@,
                         [user_id |-> c.in.user_id,
                          packaging_types |-> c.in.packaging_types,
                          materials |-> c.in.materials,
                          min_order_quantity |-> c.in.min_order_quantity,
                          personalization_available |-> c.in.personalization_available,
                          price_range_min |-> numeric2(c.in.price_range_min),
                          price_range_max |-> numeric2(c.in.price_range_max),
                          delivery_time_days |-> c.in.delivery_time_days,
                          certifications |-> c.in.certifications,
                          created_at |-> t, updated_at |-> t])],
                  Len(st.supplierProfiles) + 1)

\* ------------------------------------------------------------------ updateUserProfile
\* the optional fields of updateUserInputSchema, and those that are nullable
userUpdateFields ==
    {"company_name", "contact_person", "phone", "location", "description", "website"}
userNullableFields == {"phone", "description", "website"}

\* input.f !== undefined
ProvidedNonNull(input, f) == f \in DOMAIN input /\ input[f] # NULL
Provided(input, f) == f \in DOMAIN input

\* updateData: updated_at and the provided fields
userUpdateData(input, t) ==
    [f \in {"updated_at"} \cup {g \in userUpdateFields : Provided(input, g)} |->
        IF f = "updated_at" THEN t ELSE input[f]]

\* UPDATE .. SET data: the row with the columns of data replaced
SetColumns(row, data) == [f \in DOMAIN row |-> IF f \in DOMAIN data THEN data[f] ELSE row[f]]

updateUserProfile(c, st, t, d) ==
    CASE c.pc = "selectUser" ->
           IF ~HasRow(st.users, c.in.id) THEN Throw(c, st, <<"User not found", c.in.id>>)
           \* const updateData = {updated_at: new Date()}
           ELSE Goto([c EXCEPT !.loc = [updated_at |-> d]], st, "updateUser")
      [] c.pc = "updateUser" ->
           Return(c, [st EXCEPT !.users[c.in.id] =
                          SetColumns(@, userUpdateData(c.in, c.loc.updated_at))],
                  c.in.id)

\* ------------------------------------------------------------------ updateSupplierProfile
\* the optional fields of updateSupplierProfileInputSchema, and the two price fields
supplierUpdateFields ==
    {"packaging_types", "materials", "min_order_quantity", "personalization_available",
     "price_range_min", "price_range_max", "delivery_time_days", "certifications"}
priceFields == {"price_range_min", "price_range_max"}

\* updateData: updated_at and the provided fields, a price as input.f?.toString() || null
\* (the text of an amount is never empty, so only a null price gives null)
supplierUpdateDataNoTimestamp(input, t) ==
    [f \in {g \in supplierUpdateFields : Provided(input, g)} |->
        IF f \in priceFields THEN numeric2(input[f]) ELSE input[f]]
supplierUpdateData(input, t) ==
    [f \in {"updated_at"} \cup {g \in supplierUpdateFields : Provided(input, g)} |->
        IF f = "updated_at" THEN t
        ELSE IF f \in priceFields THEN numeric2(input[f])
        ELSE input[f]]

updateSupplierProfile(c, st, t) ==
    IF ~HasRow(st.supplierProfiles, c.in.id)
    THEN Throw(c, st, <<"Supplier profile not found", c.in.id>>)
    ELSE Return(c, [st EXCEPT !.supplierProfiles[c.in.id] =
                        SetColumns(@, supplierUpdateData(c.in, c.loc.updated_at))],
                c.in.id)

\* ------------------------------------------------------------------ getUserProfile
\* the null a query returns (a value that is no row and no object with columns)
null == [null |-> TRUE]

\* SELECT avg(rating), count(id) FROM ratings WHERE rated_id = ..: the rows aggregated
ratedRowsAsRater(st, userId) == {k \in 1..Len(st.ratings) : st.ratings[k].rater_id = userId}
ratedRows(st, userId) == {k \in 1..Len(st.ratings) : st.ratings[k].rated_id = userId}

RECURSIVE sumOfRatings(_, _)
sumOfRatings(st, rows) ==
    IF rows = {} THEN 0
    ELSE LET k == CHOOSE r \in rows : TRUE
         IN st.ratings[k].rating + sumOfRatings(st, rows \ {k})

\* avg(rating) as parseFloat reads it: a decimal, kept here to thousandths (half up)
avg(st, rows) == (2000 * sumOfRatings(st, rows) + Cardinality(rows)) \div (2 * Cardinality(rows))

getUserProfile(c, st, t) ==
    CASE c.pc = "selectUser" ->
           IF ~HasRow(st.users, c.in.userId) THEN Return(c, st, null)
           ELSE LET user == [id |-> c.in.userId] @@ st.users[c.in.userId]
                IN Goto([c EXCEPT !.loc = user], st,
                        IF user.role = "supplier" THEN "selectProfile" ELSE "selectStats")
      [] c.pc = "selectProfile" ->
           LET supplierProfileResult == existingProfile(st, c.in.userId)
           IN IF supplierProfileResult # {}
              THEN LET k == CHOOSE p \in supplierProfileResult :
                                \A q \in supplierProfileResult : p <= q
                   IN Goto([c EXCEPT !.loc = [supplier_profile |->
                                                  [id |-> k] @@ st.supplierProfiles[k]] @@ @],
                           st, "selectStats")
              ELSE Goto(c, st, "selectStats")
      [] c.pc = "selectStats" ->
           LET rows == ratedRows(st, c.in.userId)
           IN IF Cardinality(rows) > 0
              THEN Return(c, st, [rating_stats |->
                                     [average_rating |-> avg(st, rows),
                                      total_ratings |-> Cardinality(rows)]] @@ c.loc)
              ELSE Return(c, st, c.loc)

\* ------------------------------------------------------------------ uploadFileAttachment
ALLOWED_MIME_TYPES ==
    {"application/pdf", "image/jpeg", "image/png", "image/gif", "application/msword",
     "application/vnd.openxmlformats-officedocument.wordprocessingml.document",
     "application/vnd.ms-excel",
     "application/vnd.openxmlformats-officedocument.spreadsheetml.sheet",
     "text/plain", "text/csv"}

MAX_FILE_SIZE == 10 * 1024 * 1024

\* a string is the sequence of its characters; a character with no plain spelling is
\* written by its code point.  What String.prototype.trim() strips: the WhiteSpace and
\* LineTerminator characters of ECMAScript (tab, line feed, vertical tab, form feed,
\* carriage return, blank, no-break space, the other space separators, the line and
\* paragraph separators and the byte order mark)
WhiteSpace ==
    {"\t", "\n", "U+000B", "\f", "\r", " ", "U+00A0", "U+1680", "U+2000", "U+2001",
     "U+2002", "U+2003", "U+2004", "U+2005", "U+2006", "U+2007", "U+2008", "U+2009",
     "U+200A", "U+2028", "U+2029", "U+202F", "U+205F", "U+3000", "U+FEFF"}

RECURSIVE trimStart(_)
trimStart(s) == IF s # <<>> /\ Head(s) \in WhiteSpace THEN trimStart(Tail(s)) ELSE s
RECURSIVE trimEnd(_)
trimEnd(s) ==
    IF s # <<>> /\ s[Len(s)] \in WhiteSpace THEN trimEnd(SubSeq(s, 1, Len(s) - 1)) ELSE s

\* s.trim()
trimNothing(s) == s
trim(s) == trimEnd(trimStart(s))

\* an optional id that is truthy: neither undefined nor 0
given(id) == id # ABSENT /\ id # 0

\* db.select().from(table).where(eq(table.id, id)).limit(1) returned a row
selectedAlways(table, id) == TRUE
selected(table, id) == HasRow(table, id)

uploadFileAttachment(c, st, t) ==
    CASE c.pc = "validate" ->
           IF ~given(c.in.inquiryId) /\ ~given(c.in.messageId)
           THEN Throw(c, st, <<"Either inquiry_id or message_id must be provided">>)
           ELSE IF c.in.fileSize <= 0
           THEN Throw(c, st, <<"File size must be greater than 0">>)
           ELSE IF c.in.fileSize > MAX_FILE_SIZE
           THEN Throw(c, st, <<"File size exceeds maximum allowed size of 10MB">>)
           ELSE IF c.in.mimeType \notin ALLOWED_MIME_TYPES
           THEN Throw(c, st, <<"File type is not allowed", c.in.mimeType>>)
           ELSE IF c.in.filename = <<>> \/ Len(trim(c.in.filename)) = 0
           THEN Throw(c, st, <<"Filename cannot be empty">>)
           ELSE IF c.in.filePath = <<>> \/ Len(trim(c.in.filePath)) = 0
           THEN Throw(c, st, <<"File path cannot be empty">>)
           ELSE IF given(c.in.inquiryId) THEN Goto(c, st, "selectInquiry")
           ELSE Goto(c, st, "selectMessage")
      [] c.pc = "selectInquiry" ->
           IF ~selected(st.inquiries, c.in.inquiryId)
           THEN Throw(c, st, <<"Inquiry not found", c.in.inquiryId>>)
           ELSE IF given(c.in.messageId) THEN Goto(c, st, "selectMessage")
           ELSE Goto(c, st, "insertAttachment")
      [] c.pc = "selectMessage" ->
           IF ~selected(st.messages, c.in.messageId)
           THEN Throw(c, st, <<"Message not found", c.in.messageId>>)
           ELSE Goto(c, st, "insertAttachment")
      [] c.pc = "insertAttachment" ->
           Return(c, [st EXCEPT !.fileAttachments = Append(@,
                         [inquiry_id |-> IF given(c.in.inquiryId) THEN c.in.inquiryId ELSE NULL,
                          message_id |-> IF given(c.in.messageId) THEN c.in.messageId ELSE NULL,
                          filename |-> trim(c.in.filename),
                          file_path |-> trim(c.in.filePath),
                          file_size |-> c.in.fileSize,
                          mime_type |-> c.in.mimeType])],
                  Len(st.fileAttachments) + 1)

\* ------------------------------------------------------------------ getMessagesForUser
\* or(eq(sender_id, userId), eq(recipient_id, userId)): the rows selected
involves(st, userId) ==
    {k \in 1..Len(st.messages) :
        st.messages[k].sender_id = userId \/ st.messages[k].recipient_id = userId}

\* orderBy(desc(sent_at)): row j comes before row k; rows sent at the same time come in
\* the order the store produces them in (rank)
oldestFirst(st, rank, j, k) ==
    \/ st.messages[j].sent_at < st.messages[k].sent_at
    \/ st.messages[j].sent_at = st.messages[k].sent_at /\ rank[j] < rank[k]
descSentAt(st, rank, j, k) ==
    \/ st.messages[j].sent_at > st.messages[k].sent_at
    \/ st.messages[j].sent_at = st.messages[k].sent_at /\ rank[j] < rank[k]

RECURSIVE orderBy(_, _, _)
orderBy(st, rank, rows) ==
    IF rows = {} THEN <<>>
    ELSE LET first == CHOOSE j \in rows : \A k \in rows \ {j} : descSentAt(st, rank, j, k)
         IN <<[id |-> first] @@ st.messages[first]>> \o orderBy(st, rank, rows \ {first})

getMessagesForUser(c, st, t) ==
    Return(c, st, orderBy(st, c.in.rank, involves(st, c.in.userId)))

\* ------------------------------------------------------------------ searchSuppliers
\* the handler is a placeholder: it reads nothing and resolves to the empty list
searchSuppliers(c, st, t) ==
    CASE c.pc = "resolve" -> Return(c, st, <<>>)

\* ------------------------------------------------------------------ getInquiriesForSupplier
\* where(eq(inquirySuppliersTable.supplier_id, supplierId))
sentToAnyone(row, supplierId) == TRUE
sentTo(row, supplierId) == row.supplier_id = supplierId

\* inquiries INNER JOIN inquiry_suppliers ON inquiries.id = inquiry_suppliers.inquiry_id:
\* the junction rows whose inquiry exists and that the WHERE clause keeps
joinedRows(st, supplierId) ==
    {k \in 1..Len(st.inquirySuppliers) :
        /\ HasRow(st.inquiries, st.inquirySuppliers[k].inquiry_id)
        /\ sentTo(st.inquirySuppliers[k], supplierId)}

RECURSIVE inquiriesOf(_, _, _)
\* results.map(result => result.inquiries): one inquiry per joined row, in the order the
\* store produces the rows in (rank; the query states no order)
inquiriesOf(st, rank, rows) ==
    IF rows = {} THEN <<>>
    ELSE LET first == CHOOSE j \in rows : \A k \in rows \ {j} : rank[j] < rank[k]
             id == st.inquirySuppliers[first].inquiry_id
         IN <<[id |-> id] @@ st.inquiries[id]>> \o inquiriesOf(st, rank, rows \ {first})

getInquiriesForSupplier(c, st, t) ==
    CASE c.pc = "selectInquiries" ->
           Return(c, st, inquiriesOf(st, c.in.rank, joinedRows(st, c.in.supplierId)))

\* ------------------------------------------------------------------ execution
\* one store statement of a call, executed at clock t, and the handler's code from the
\* arrival of its response, at clock d, to the next await
Statement(c, st, t, d) ==
    CASE c.op = "createUser" -> createUser(c, st, t)
      [] c.op = "createInquiry" -> createInquiry(c, st, t)
      [] c.op = "createQuote" -> createQuote(c, st, t, d)
      [] c.op = "updateInquiryStatus" -> updateInquiryStatus(c, st, t, d)
      [] c.op = "createMessage" -> createMessage(c, st, t)
      [] c.op = "markMessageAsRead" -> markMessageAsRead(c, st, t, d)
      [] c.op = "createRating" -> createRating(c, st, t)
      [] c.op = "createSupplierProfile" -> createSupplierProfile(c, st, t)
      [] c.op = "updateUserProfile" -> updateUserProfile(c, st, t, d)
      [] c.op = "updateSupplierProfile" -> updateSupplierProfile(c, st, t)
      [] c.op = "getUserProfile" -> getUserProfile(c, st, t)
      [] c.op = "uploadFileAttachment" -> uploadFileAttachment(c, st, t)
      [] c.op = "getMessagesForUser" -> getMessagesForUser(c, st, t)
      [] c.op = "searchSuppliers" -> searchSuppliers(c, st, t)
      [] c.op = "getInquiriesForSupplier" -> getInquiriesForSupplier(c, st, t)

\* the code of a handler before its first await, run when the request arrives:
\* updateSupplierProfile builds its updateData, {updated_at: new Date()}, there
Arrive(c, t) ==
    IF c.op = "updateSupplierProfile" THEN [c EXCEPT !.loc = [updated_at |-> t]] ELSE c

RECURSIVE Statements(_, _, _)
\* the statements of a call from where it stands to its return or throw
Statements(c, st, t) ==
    IF ~Running(c) THEN [call |-> c, st |-> st]
    ELSE LET r == Statement(c, st, t, t) IN Statements(r.call, r.st, t)

\* a handler run from its arrival to its return or throw, nothing interleaved (no other
\* request, no move of the clock)
Handler(c, st, t) == Statements(Arrive(c, t), st, t)

\* ------------------------------------------------------------------ inputs
\* supplier_ids: z.array(z.number()), any list up to MaxIds long, repeats included
RECURSIVE ListsUpTo(_, _)
ListsUpTo(S, n) ==
    IF n = 0 THEN {<<>>}
    ELSE LET shorter == ListsUpTo(S, n - 1)
         IN shorter \cup {Append(l, x) : l \in {m \in shorter : Len(m) = n - 1}, x \in S}

SupplierIdLists == ListsUpTo(UserIds, MaxIds)

\* a registration form: texts are numbered, every optional text is filled in
NewCreateUser(email, role) ==
    NewCall("createUser", "insertUser",
            [email |-> email, password_hash |-> 1, company_name |-> 1, contact_person |-> 1,
             phone |-> 1, role |-> role, location |-> 1, description |-> 1, website |-> 1],
            <<>>)
NewCreateInquiry(buyer_id, supplier_ids) ==
    NewCall("createInquiry", "selectBuyer",
            [buyer_id |-> buyer_id, supplier_ids |-> supplier_ids], [inquiry |-> null])
NewCreateQuote(inquiry_id, supplier_id) ==
    NewCall("createQuote", "selectSupplier",
            [inquiry_id |-> inquiry_id, supplier_id |-> supplier_id],
            [status |-> "", quote |-> NULL])
NewUpdateInquiryStatus(id, status) ==
    NewCall("updateInquiryStatus", "selectInquiry", [id |-> id, status |-> status],
            [status |-> ""])
NewCreateMessage(sender_id, recipient_id, inquiry_id) ==
    NewCall("createMessage", "selectSender",
            [sender_id |-> sender_id, recipient_id |-> recipient_id, inquiry_id |-> inquiry_id],
            <<>>)
NewUploadFileAttachment(filename, filePath, fileSize, mimeType, inquiryId, messageId) ==
    NewCall("uploadFileAttachment", "validate",
            [filename |-> filename, filePath |-> filePath, fileSize |-> fileSize,
             mimeType |-> mimeType, inquiryId |-> inquiryId, messageId |-> messageId], <<>>)
\* rank: the order the store produces the rows in, where the query leaves it open
NewGetMessagesForUser(userId, rank) ==
    NewCall("getMessagesForUser", "selectMessages", [userId |-> userId, rank |-> rank], <<>>)
\* rank: the order the store produces the joined rows in
NewGetInquiriesForSupplier(supplierId, rank) ==
    NewCall("getInquiriesForSupplier", "selectInquiries",
            [supplierId |-> supplierId, rank |-> rank], <<>>)
NewSearchSuppliers(input) ==
    NewCall("searchSuppliers", "resolve", input, <<>>)
NewGetUserProfile(userId) ==
    NewCall("getUserProfile", "selectUser", [userId |-> userId], <<>>)
NewUpdateUserProfile(id, patch) ==
    NewCall("updateUserProfile", "selectUser", patch @@ [id |-> id], <<>>)
NewUpdateSupplierProfile(id, patch) ==
    NewCall("updateSupplierProfile", "updateProfile", patch @@ [id |-> id], <<>>)
\* a supplier's form: lists and texts are numbered, prices are in thousandths (a lower
\* price under half a hundredth, and an upper price that ends on half a hundredth)
NewCreateSupplierProfile(user_id) ==
    NewCall("createSupplierProfile", "selectUser",
            [user_id |-> user_id, packaging_types |-> 1, materials |-> 1,
             min_order_quantity |-> 1, personalization_available |-> FALSE,
             price_range_min |-> 4, price_range_max |-> 12345,
             delivery_time_days |-> 1, certifications |-> 1], <<>>)
NewCreateRating(rater_id, rated_id, inquiry_id, rating) ==
    NewCall("createRating", "selectUsers",
            [rater_id |-> rater_id, rated_id |-> rated_id, inquiry_id |-> inquiry_id,
             rating |-> rating], <<>>)
NewMarkMessageAsRead(messageId, userId) ==
    NewCall("markMessageAsRead", "selectMessage", [messageId |-> messageId, userId |-> userId],
            <<>>)

\* ------------------------------------------------------------------ state
Init ==
    /\ users = <<>>
    /\ supplierProfiles = <<>>
    /\ inquiries = <<>>
    /\ inquirySuppliers = <<>>
    /\ quotes = <<>>
    /\ messages = <<>>
    /\ fileAttachments = <<>>
    /\ ratings = <<>>
    /\ now = 1
    /\ calls = [p \in Procs |-> IdleCall]
    /\ before = EmptyStore

SetStore(st) ==
    /\ users' = st.users
    /\ supplierProfiles' = st.supplierProfiles
    /\ inquiries' = st.inquiries
    /\ inquirySuppliers' = st.inquirySuppliers
    /\ quotes' = st.quotes
    /\ messages' = st.messages
    /\ fileAttachments' = st.fileAttachments
    /\ ratings' = st.ratings

\* no table grows beyond its bound in the model
WithinBounds(st) ==
    /\ Len(st.users) <= MaxUsers
    /\ Len(st.inquiries) <= MaxInquiries \/ Len(st.inquiries) = Len(inquiries)
    /\ Len(st.quotes) <= MaxQuotes
    /\ Len(st.messages) <= MaxMessages \/ Len(st.messages) = Len(messages)
    /\ Len(st.supplierProfiles) <= MaxProfiles
    /\ Len(st.ratings) <= MaxRatings
    /\ Len(st.fileAttachments) <= MaxAttachments

\* time passes
Tick ==
    /\ now < MaxClock
    /\ now' = now + 1
    /\ UNCHANGED <<tables, calls, before>>

\* ------------------------------------------------------------------ handlers run alone
\* one request served from start to finish by process 1, no other request in flight
Alone(c) ==
    LET r == Handler(c, Store, now)
    IN /\ WithinBounds(r.st)
       /\ SetStore(r.st)
       /\ calls' = [calls EXCEPT ![1] = r.call]
       /\ before' = Store
       /\ now' = now

\* no request is in flight, and the client has read the response to its last one
Quiet == \A p \in Procs : calls[p].op = "idle"

\* the client reads the response to the request it made
Respond ==
    /\ calls[1].op # "idle"
    /\ ~Running(calls[1])
    /\ calls' = [calls EXCEPT ![1] = IdleCall]
    /\ before' = EmptyStore
    /\ UNCHANGED <<tables, now>>

\* registration; the address is the next unused one
CallCreateUser ==
    /\ Quiet
    /\ \E role \in userRoleEnum : Alone(NewCreateUser(Len(users) + 1, role))
CallCreateInquiry ==
    /\ Quiet
    /\ \E b \in UserIds, ids \in SupplierIdLists : Alone(NewCreateInquiry(b, ids))
CallCreateQuote ==
    /\ Quiet
    /\ \E i \in InquiryIds, s \in UserIds : Alone(NewCreateQuote(i, s))
CallUpdateInquiryStatus ==
    /\ Quiet
    /\ \E i \in InquiryIds, s \in inquiryStatusEnum : Alone(NewUpdateInquiryStatus(i, s))
CallCreateMessage ==
    /\ Quiet
    /\ \E a \in UserIds, b \in UserIds, i \in {NULL} \cup InquiryIds :
           Alone(NewCreateMessage(a, b, i))
CallMarkMessageAsRead ==
    /\ Quiet
    /\ \E m \in MessageIds, u \in UserIds : Alone(NewMarkMessageAsRead(m, u))

\* the inquiry lifecycle, one request at a time
NextInquiry ==
    \/ CallCreateUser
    \/ CallCreateInquiry
    \/ CallCreateQuote
    \/ CallUpdateInquiryStatus
    \/ Respond
    \/ Tick

Spec == Init /\ [][NextInquiry]_vars

\* messaging, one request at a time
NextMessaging ==
    \/ CallCreateUser
    \/ CallCreateMessage
    \/ CallMarkMessageAsRead
    \/ Respond
    \/ Tick

SpecMessaging == Init /\ [][NextMessaging]_vars

\* ------------------------------------------------------------------ concurrent requests
\* calls of a handler that are in flight
InFlight(op) == Cardinality({p \in Procs : Running(calls[p]) /\ calls[p].op = op})

\* a request arrives at process p; every insert it may make has room in the model
Start(p, c) ==
    /\ c.op = "createUser" => Len(users) + InFlight("createUser") < MaxUsers
    /\ c.op = "createInquiry" => Len(inquiries) + InFlight("createInquiry") < MaxInquiries
    /\ c.op = "createQuote" => Len(quotes) + InFlight("createQuote") < MaxQuotes
    /\ c.op = "createMessage" => Len(messages) + InFlight("createMessage") < MaxMessages
    /\ c.op = "createRating" => Len(ratings) + InFlight("createRating") < MaxRatings
    /\ c.op = "createSupplierProfile" =>
          Len(supplierProfiles) + InFlight("createSupplierProfile") < MaxProfiles
    /\ calls' = [calls EXCEPT ![p] = Arrive(c, now)]
    /\ UNCHANGED <<tables, now, before>>

\* the handler's code after the next statement of c reads the clock: what it does
\* depends on when the response reaches it
ReadsClock(c, st, t) ==
    \E d \in t..MaxClock : Statement(c, st, t, d).call # Statement(c, st, t, t).call

\* the store executes the next statement of p's call; its response is on its way to the
\* handler, as the call the handler makes of it at each clock value it may arrive at
Exec(p) ==
    /\ Running(calls[p])
    /\ calls[p].resp = <<>>
    /\ ReadsClock(calls[p], Store, now)
    /\ SetStore(Statement(calls[p], Store, now, now).st)
    /\ calls' = [calls EXCEPT ![p].resp =
                     [d \in 1..MaxClock |-> Statement(calls[p], Store, now, d).call]]
    /\ UNCHANGED <<now, before>>

\* the response reaches the handler of p's call, which runs on to its next await (or to
\* its return or throw) and reads the clock on the way
Deliver(p) ==
    /\ calls[p].resp # <<>>
    /\ calls' = [calls EXCEPT ![p] = calls[p].resp[now]]
    /\ UNCHANGED <<tables, now, before>>

\* the store executes the next statement of p's call and the handler runs on to its next
\* await, where this code reads no clock (when the response arrives then makes no
\* difference to the store or to the call)
Step(p) ==
    /\ Running(calls[p])
    /\ calls[p].resp = <<>>
    /\ ~ReadsClock(calls[p], Store, now)
    /\ LET r == Statement(calls[p], Store, now, now)
       IN /\ SetStore(r.st)
          /\ calls' = [calls EXCEPT ![p] = r.call]
    /\ UNCHANGED <<now, before>>

\* the store refuses the next statement of p's call (connection lost, statement timeout):
\* the await throws, the handler's catch logs and rethrows, nothing is undone
StatementFails(p) ==
    /\ Running(calls[p])
    /\ calls[p].resp = <<>>
    /\ calls' = [calls EXCEPT ![p] = Throw(calls[p], Store, <<"store error">>).call]
    /\ UNCHANGED <<tables, now, before>>

StartCreateInquiry(p) ==
    /\ ~Running(calls[p])
    /\ \E b \in UserIds, ids \in SupplierIdLists : Start(p, NewCreateInquiry(b, ids))
StartCreateQuote(p) ==
    /\ ~Running(calls[p])
    /\ \E i \in InquiryIds, s \in UserIds : Start(p, NewCreateQuote(i, s))
StartUpdateInquiryStatus(p) ==
    /\ ~Running(calls[p])
    /\ \E i \in InquiryIds, s \in inquiryStatusEnum : Start(p, NewUpdateInquiryStatus(i, s))
StartMarkMessageAsRead(p) ==
    /\ ~Running(calls[p])
    /\ \E m \in MessageIds, u \in UserIds : Start(p, NewMarkMessageAsRead(m, u))
\* a registered user writes to a registered user, about no inquiry
StartCreateMessage(p) ==
    /\ ~Running(calls[p])
    /\ \E a \in 1..Len(users), b \in 1..Len(users) : Start(p, NewCreateMessage(a, b, NULL))

\* a request of some other client whose statements nothing interleaves with: a handler
\* of one statement served among the calls in flight, or a handler of several served
\* while no call is in flight (its response goes to that client: it is recorded in
\* neither calls nor before)
Served(c) ==
    LET r == Handler(c, Store, now)
    IN /\ WithinBounds(r.st)
       /\ SetStore(r.st)
       /\ UNCHANGED <<now, calls, before>>

\* (a served request that fails leaves the state as it is, so each is tried only while
\* its table has room)
ServedCreateUser ==
    /\ Len(users) < MaxUsers
    /\ \E role \in userRoleEnum : Served(NewCreateUser(Len(users) + 1, role))
ServedCreateInquiry ==
    /\ Len(inquiries) < MaxInquiries
    /\ \E b \in UserIds, ids \in SupplierIdLists : Served(NewCreateInquiry(b, ids))

\* the inquiry lifecycle with requests in flight together
\* a registered user sends an inquiry to registered users
StartCreateInquiryRegistered(p) ==
    /\ ~Running(calls[p])
    /\ \E b \in 1..Len(users), ids \in ListsUpTo(1..Len(users), MaxIds) :
           Start(p, NewCreateInquiry(b, ids))

\* a registered user quotes on a stored inquiry
StartCreateQuoteRegistered(p) ==
    /\ ~Running(calls[p])
    /\ \E i \in 1..Len(inquiries), s \in 1..Len(users) : Start(p, NewCreateQuote(i, s))

NextInquiryConcurrent ==
    \/ ServedCreateUser
    \/ \E p \in Procs : StartCreateInquiryRegistered(p)
    \/ \E p \in Procs : StartCreateQuoteRegistered(p)
    \/ \E p \in Procs : StartUpdateInquiryStatus(p)
    \/ \E p \in Procs : Step(p)
    \/ \E p \in Procs : Exec(p)
    \/ \E p \in Procs : Deliver(p)

SpecInquiryConcurrent == Init /\ [][NextInquiryConcurrent]_vars

\* the multi-statement handlers, one request at a time, over a store whose statements
\* may fail
NextInquiryFaulty ==
    \/ ServedCreateUser
    \/ StartCreateInquiry(1)
    \/ StartCreateQuote(1)
    \/ Step(1)
    \/ Exec(1)
    \/ Deliver(1)
    \/ StatementFails(1)

SpecInquiryFaulty == Init /\ [][NextInquiryFaulty]_vars

\* messaging with mark-as-read requests in flight together
NextMessagingConcurrent ==
    \/ ServedCreateUser
    \/ \E p \in Procs : StartCreateMessage(p)
    \/ \E p \in Procs : StartMarkMessageAsRead(p)
    \/ \E p \in Procs : Step(p)
    \/ \E p \in Procs : Exec(p)
    \/ \E p \in Procs : Deliver(p)
    \/ Tick

SpecMessagingConcurrent == Init /\ [][NextMessagingConcurrent]_vars

\* ------------------------------------------------------------------ ratings
\* between two recorded requests: a registration whose response nobody looks at
Register ==
    /\ Quiet
    /\ ServedCreateUser

RatedInquiryIds == 1..(MaxRatedInquiries + 1)

\* between two recorded requests: an inquiry some buyer sends to one supplier
SendInquiryToOne ==
    /\ Quiet
    /\ Len(inquiries) < MaxRatedInquiries
    /\ \E b \in UserIds, s \in UserIds :
           LET r == Handler(NewCreateInquiry(b, <<s>>), Store, now)
           IN SetStore(r.st) /\ UNCHANGED <<now, calls, before>>

CallCreateRating ==
    /\ Quiet
    /\ \E a \in UserIds, b \in UserIds, i \in {NULL} \cup RatedInquiryIds :
           Alone(NewCreateRating(a, b, i, ratingMax))

\* ratings, one request at a time
NextRating ==
    \/ Register
    \/ SendInquiryToOne
    \/ CallCreateRating
    \/ Respond

SpecRating == Init /\ [][NextRating]_vars

\* ------------------------------------------------------------------ supplier profiles
ProfileIds == 1..(MaxProfiles + 1)

\* between two recorded requests: a registration, while few users are registered
RegisterFew ==
    /\ Len(users) < MaxUpdatedUsers
    /\ Register

CallCreateSupplierProfile ==
    /\ Quiet
    /\ \E u \in UserIds : Alone(NewCreateSupplierProfile(u))

\* a price of an update form: left out, null, an amount under half a hundredth, or an
\* amount above
PriceInputs == {ABSENT, NULL, 4, 7004}

\* the update form with the fields F set to new values and the two prices as given
SupplierPatch(F, pmin, pmax) ==
    [f \in F \cup {g \in priceFields :
                       \/ g = "price_range_min" /\ pmin # ABSENT
                       \/ g = "price_range_max" /\ pmax # ABSENT} |->
        CASE f = "price_range_min" -> pmin
          [] f = "price_range_max" -> pmax
          [] f = "personalization_available" -> TRUE
          [] OTHER -> 2]

\* the fields the update forms carry besides the prices
SupplierFormFields == {"materials"}

SupplierPatches ==
    {SupplierPatch(F, pmin, pmax) :
        F \in SUBSET SupplierFormFields,
        pmin \in PriceInputs, pmax \in PriceInputs}

CallUpdateSupplierProfile ==
    /\ Quiet
    /\ \E id \in ProfileIds, p \in SupplierPatches : Alone(NewUpdateSupplierProfile(id, p))

\* supplier profiles, one request at a time
NextSupplierProfile ==
    \/ RegisterFew
    \/ CallCreateSupplierProfile
    \/ CallUpdateSupplierProfile
    \/ Respond
    \/ Tick

SpecSupplierProfile == Init /\ [][NextSupplierProfile]_vars

\* ------------------------------------------------------------------ registration
Emails == 1..MaxEmails

StartCreateUser(p) ==
    /\ ~Running(calls[p])
    /\ \E email \in Emails, role \in userRoleEnum : Start(p, NewCreateUser(email, role))

\* registrations in flight together
NextRegistration ==
    \/ \E p \in Procs : StartCreateUser(p)
    \/ \E p \in Procs : Step(p)
    \/ Tick

SpecRegistration == Init /\ [][NextRegistration]_vars

\* ------------------------------------------------------------------ user profiles
Texts == 1..MaxTexts

\* the fields the update forms carry: two that are not nullable and a nullable one
UserFormFields == {"company_name", "phone", "location"}

\* the update forms: any of these fields, a nullable one possibly null
UserPatches ==
    {p \in UNION {[F -> {NULL} \cup Texts] : F \in SUBSET UserFormFields} :
        \A f \in DOMAIN p : p[f] = NULL => f \in userNullableFields}

CallUpdateUserProfile ==
    /\ Quiet
    /\ \E id \in UserIds, p \in UserPatches : Alone(NewUpdateUserProfile(id, p))

\* user profiles, one request at a time
NextUserProfile ==
    \/ RegisterFew
    \/ CallUpdateUserProfile
    \/ Respond
    \/ Tick

SpecUserProfile == Init /\ [][NextUserProfile]_vars

\* ------------------------------------------------------------------ profile views
\* between two recorded requests: a supplier profile is created
AddSupplierProfile ==
    /\ Quiet
    /\ Len(supplierProfiles) < MaxProfiles
    /\ \E u \in UserIds : Served(NewCreateSupplierProfile(u))

\* between two recorded requests: a rating without inquiry is given
AddRating ==
    /\ Quiet
    /\ Len(ratings) < MaxRatings
    /\ \E a \in UserIds, b \in UserIds, r \in RatingInputs :
           Served(NewCreateRating(a, b, NULL, r))

CallGetUserProfile ==
    /\ Quiet
    /\ \E u \in UserIds : Alone(NewGetUserProfile(u))

\* profile views, one request at a time
NextProfileView ==
    \/ Register
    \/ AddSupplierProfile
    \/ AddRating
    \/ CallGetUserProfile
    \/ Respond

SpecProfileView == Init /\ [][NextProfileView]_vars

\* ------------------------------------------------------------------ file attachments
\* between two recorded requests: a buyer creates an inquiry sent to nobody yet
AddInquiry ==
    /\ Quiet
    /\ Len(inquiries) < MaxInquiries
    /\ \E b \in UserIds : Served(NewCreateInquiry(b, <<>>))

\* between two recorded requests: a message outside any inquiry is sent
AddMessage ==
    /\ Quiet
    /\ Len(messages) < MaxMessages
    /\ \E a \in UserIds, b \in UserIds : Served(NewCreateMessage(a, b, NULL))

\* the optional ids of an upload: left out, 0, or an id
OptionalInquiryIds == {ABSENT, 0} \cup InquiryIds
OptionalMessageIds == {ABSENT, 0} \cup MessageIds

\* file names and paths: empty, a blank, a tab, plain, padded with blanks, padded with a
\* tab and a line feed, a no-break space before a name with a blank inside, and the
\* zero width space (U+200B), which is no white space
FileNames ==
    {<<>>, <<" ">>, <<"\t">>, <<"a">>, <<" ", "a", " ">>, <<"\t", "a", "\n">>,
     <<"U+00A0", "a", " ", "b">>, <<"U+200B">>}
FileSizes == {-1, 0, 1, MAX_FILE_SIZE, MAX_FILE_SIZE + 1}
MimeTypes == {"application/pdf", "text/csv", "application/zip"}

\* a file of a good size and type, its name plain or only a tab, attached to whatever
\* the ids say
CallUploadReferences ==
    /\ Quiet
    /\ \E filename \in {<<"a">>, <<"\t">>}, i \in OptionalInquiryIds,
          m \in OptionalMessageIds :
           Alone(NewUploadFileAttachment(filename, <<"a">>, 1, "application/pdf", i, m))

\* whatever file attached to the first inquiry or to nothing
CallUploadFile ==
    /\ Quiet
    /\ \E filename \in FileNames, filePath \in FileNames, fileSize \in FileSizes,
          mimeType \in MimeTypes, i \in {ABSENT, 1} :
           Alone(NewUploadFileAttachment(filename, filePath, fileSize, mimeType, i, ABSENT))

\* attachments and what they refer to, one request at a time
NextAttachmentReferences ==
    \/ Register
    \/ AddInquiry
    \/ AddMessage
    \/ CallUploadReferences
    \/ Respond

SpecAttachmentReferences == Init /\ [][NextAttachmentReferences]_vars

\* attachments and the files they name, one request at a time
NextAttachmentFiles ==
    \/ Register
    \/ AddInquiry
    \/ CallUploadFile
    \/ Respond

SpecAttachmentFiles == Init /\ [][NextAttachmentFiles]_vars

\* ------------------------------------------------------------------ message lists
ListedMessageIds == 1..MaxListedMessages

\* between two recorded requests: a message outside any inquiry is sent, while the
\* list has room
SendMessage ==
    /\ Quiet
    /\ Len(messages) < MaxListedMessages
    /\ \E a \in UserIds, b \in UserIds :
           LET r == Handler(NewCreateMessage(a, b, NULL), Store, now)
           IN SetStore(r.st) /\ UNCHANGED <<now, calls, before>>

\* the orders the store may produce rows in
Ranks == Permutations(ListedMessageIds)

CallGetMessagesForUser ==
    /\ Quiet
    /\ \E u \in UserIds, rank \in Ranks : Alone(NewGetMessagesForUser(u, rank))

\* message lists, one request at a time
NextMessageList ==
    \/ Register
    \/ SendMessage
    \/ CallGetMessagesForUser
    \/ Respond
    \/ Tick

SpecMessageList == Init /\ [][NextMessageList]_vars

\* ------------------------------------------------------------------ supplier search
\* search forms: a function of the filters that are supplied
SearchFilters ==
    {<<>>} \cup {[max_min_order_quantity |-> q] : q \in {0, 1}}
           \cup {[personalization_required |-> b] : b \in BOOLEAN}
           \cup {[max_min_order_quantity |-> 1, personalization_required |-> FALSE]}

CallSearchSuppliers ==
    /\ Quiet
    /\ \E f \in SearchFilters : Alone(NewSearchSuppliers(f))

\* supplier search, one request at a time
NextSupplierSearch ==
    \/ Register
    \/ AddSupplierProfile
    \/ CallSearchSuppliers
    \/ Respond

SpecSupplierSearch == Init /\ [][NextSupplierSearch]_vars

\* ------------------------------------------------------------------ message creation
\* sending messages, one request at a time, with and without an inquiry to refer to
NextMessageCreation ==
    \/ Register
    \/ AddInquiry
    \/ CallCreateMessage
    \/ Respond

SpecMessageCreation == Init /\ [][NextMessageCreation]_vars

\* ------------------------------------------------------------------ invitations
SentInquiryIds == 1..(MaxSentInquiries + 1)

\* a buyer's createInquiry request, recorded, while the model has room for the inquiry
CallSendInquiry ==
    /\ Quiet
    /\ Len(inquiries) < MaxSentInquiries
    /\ \E b \in UserIds, ids \in SupplierIdLists :
           LET r == Handler(NewCreateInquiry(b, ids), Store, now)
           IN /\ SetStore(r.st)
              /\ calls' = [calls EXCEPT ![1] = r.call]
              /\ before' = Store
              /\ now' = now

CallQuoteSentInquiry ==
    /\ Quiet
    /\ \E i \in SentInquiryIds, s \in UserIds : Alone(NewCreateQuote(i, s))

\* the orders the store may produce the junction rows in
InvitationRanks == Permutations(1..(MaxSentInquiries * MaxIds))

CallGetInquiriesForSupplier ==
    /\ Quiet
    /\ \E s \in UserIds, rank \in InvitationRanks : Alone(NewGetInquiriesForSupplier(s, rank))

\* invitations written and read, one request at a time
NextInvitation ==
    \/ Register
    \/ CallSendInquiry
    \/ CallQuoteSentInquiry
    \/ CallGetInquiriesForSupplier
    \/ Respond

SpecInvitation == Init /\ [][NextInvitation]_vars

\* ------------------------------------------------------------------ concurrent ratings
\* some buyer sends an inquiry to nobody
StartCreateBareInquiry(p) ==
    /\ ~Running(calls[p])
    /\ \E b \in UserIds : Start(p, NewCreateInquiry(b, <<>>))

\* a registered user rates another one for an inquiry
StartCreateRating(p) ==
    /\ ~Running(calls[p])
    /\ \E a \in 1..Len(users), b \in 1..Len(users), i \in InquiryIds :
           /\ a # b /\ HasRow(users, a) /\ HasRow(users, b)
           /\ Start(p, NewCreateRating(a, b, i, ratingMax))

\* ratings with requests in flight together
NextRatingConcurrent ==
    \/ ServedCreateUser
    \/ \E p \in Procs : StartCreateBareInquiry(p)
    \/ \E p \in Procs : StartCreateRating(p)
    \/ \E p \in Procs : Step(p)

SpecRatingConcurrent == Init /\ [][NextRatingConcurrent]_vars

\* ------------------------------------------------------------------ concurrent profiles
\* a registered user files a supplier profile
StartCreateSupplierProfile(p) ==
    /\ ~Running(calls[p])
    /\ \E u \in 1..Len(users) : HasRow(users, u) /\ Start(p, NewCreateSupplierProfile(u))

\* supplier profiles with requests in flight together
NextSupplierProfileConcurrent ==
    \/ ServedCreateUser
    \/ \E p \in Procs : StartCreateSupplierProfile(p)
    \/ \E p \in Procs : Step(p)
    \/ Tick

SpecSupplierProfileConcurrent == Init /\ [][NextSupplierProfileConcurrent]_vars

\* ------------------------------------------------------------------ concurrent quotes
\* before any quote is requested: some buyer sends an inquiry
SendInquiry ==
    /\ Quiet
    /\ ServedCreateInquiry

\* the two processes that serve the two createQuote requests
QuotingProcs == {1, 2}

\* the one createQuote request of process p
StartOneCreateQuote(p) ==
    /\ p \in QuotingProcs
    /\ calls[p].op = "idle"
    /\ \E i \in InquiryIds, s \in UserIds : Start(p, NewCreateQuote(i, s))

\* two createQuote requests in flight together on the inquiries sent before them, and
\* no other request
NextQuoteConcurrent ==
    \/ Register
    \/ SendInquiry
    \/ \E p \in Procs : StartOneCreateQuote(p)
    \/ \E p \in Procs : Step(p)
    \/ \E p \in Procs : Exec(p)
    \/ \E p \in Procs : Deliver(p)
    \/ Tick

SpecQuoteConcurrent == Init /\ [][NextQuoteConcurrent]_vars

\* ------------------------------------------------------------------ properties
\* the last request served alone, and the row it addressed before it ran
last == calls[1]

\* C1: under any interleaving of updateInquiryStatus and createQuote calls no step moves
\* an inquiry's stored status to an earlier stage of pending < responded < closed.
C1_StatusNeverRegresses ==
    [][\A i \in 1..Len(inquiries) :
          indexOf(inquiries'[i].status) >= indexOf(inquiries[i].status)]_vars

\* C2: updateInquiryStatus on an existing inquiry, run alone, succeeds and stores the
\* requested status exactly when the requested stage is not before the current one;
\* otherwise it fails with the transition error naming both states and the row keeps
\* its status and updated_at.
C2_TransitionGuard ==
    (last.op = "updateInquiryStatus" /\ last.in.id \in 1..Len(before.inquiries)) =>
        LET old == before.inquiries[last.in.id]
            new == inquiries[last.in.id]
            from == CHOOSE k \in 1..3 : <<"pending", "responded", "closed">>[k] = old.status
            to == CHOOSE k \in 1..3 : <<"pending", "responded", "closed">>[k] = last.in.status
        IN IF to >= from
           THEN last.res = OK /\ new.status = last.in.status
           ELSE /\ last.res = <<"Invalid status transition", old.status, last.in.status>>
                /\ new.status = old.status
                /\ new.updated_at = old.updated_at

\* a request to reopen a closed inquiry was refused
C2_Witness ==
    /\ last.op = "updateInquiryStatus"
    /\ last.in.id \in 1..Len(before.inquiries)
    /\ before.inquiries[last.in.id].status = "closed"
    /\ last.in.status = "pending"
    /\ Failed(last)

\* C3: a successful createQuote, run alone, turns the inquiry's status into responded
\* when it was pending at the start of the call and leaves it as it was otherwise, so a
\* sequence of quotes changes the status at most once.
C3_QuoteFlipsPendingOnly ==
    (last.op = "createQuote" /\ Succeeded(last)) =>
        LET old == before.inquiries[last.in.inquiry_id].status
            new == inquiries[last.in.inquiry_id].status
        IN IF old = "pending" THEN new = "responded" ELSE new = old

\* a second quote was accepted on an inquiry that was not pending any more
C3_Witness ==
    /\ last.op = "createQuote"
    /\ Succeeded(last)
    /\ Len(quotes) = 2
    /\ quotes[1].inquiry_id = quotes[2].inquiry_id
    /\ before.inquiries[last.in.inquiry_id].status # "pending"

\* C4: every stored quote has an InquirySupplier row for its inquiry and supplier, and a
\* createQuote by a supplier the inquiry was not sent to is rejected with the 'was not
\* sent inquiry' error, inserting no quote and changing no inquiry.
C4_QuoteOnlyIfSent ==
    /\ \A q \in 1..Len(quotes) :
          \E k \in 1..Len(inquirySuppliers) :
              /\ inquirySuppliers[k].inquiry_id = quotes[q].inquiry_id
              /\ inquirySuppliers[k].supplier_id = quotes[q].supplier_id
    /\ ( /\ last.op = "createQuote"
         /\ HasRow(before.users, last.in.supplier_id)
         /\ before.users[last.in.supplier_id].role = "supplier"
         /\ last.in.inquiry_id \in 1..Len(before.inquiries)
         /\ ~\E k \in 1..Len(before.inquirySuppliers) :
                /\ before.inquirySuppliers[k].inquiry_id = last.in.inquiry_id
                /\ before.inquirySuppliers[k].supplier_id = last.in.supplier_id )
       => /\ last.res = <<"Supplier was not sent inquiry">>
          /\ quotes = before.quotes
          /\ inquiries = before.inquiries

\* a supplier that exists quoted on an inquiry that was sent to someone else
C4_Witness ==
    /\ last.op = "createQuote"
    /\ last.res = <<"Supplier was not sent inquiry">>
    /\ Len(inquirySuppliers) > 0

\* the buyer of the last createInquiry call exists and is a buyer
ValidBuyer == 
    /\ HasRow(before.users, last.in.buyer_id)
    /\ before.users[last.in.buyer_id].role = "buyer"

\* every id the last createInquiry call listed is an existing supplier
AllListedAreSuppliers ==
    \A k \in 1..Len(last.in.supplier_ids) :
        /\ HasRow(before.users, last.in.supplier_ids[k])
        /\ before.users[last.in.supplier_ids[k]].role = "supplier"

\* the last createInquiry call listed some id twice
ListRepeatsAnId ==
    \E j, k \in 1..Len(last.in.supplier_ids) :
        j # k /\ last.in.supplier_ids[j] = last.in.supplier_ids[k]

\* the last call added one inquiry and, in list order, one InquirySupplier row per listed
\* id, each with the new inquiry's id, and nothing else
FannedOut ==
    /\ Len(inquiries) = Len(before.inquiries) + 1
    /\ Len(inquirySuppliers) = Len(before.inquirySuppliers) + Len(last.in.supplier_ids)
    /\ \A k \in 1..Len(before.inquirySuppliers) :
          inquirySuppliers[k] = before.inquirySuppliers[k]
    /\ \A k \in 1..Len(last.in.supplier_ids) :
          LET row == inquirySuppliers[Len(before.inquirySuppliers) + k]
          IN /\ row.inquiry_id = Len(before.inquiries) + 1
             /\ row.supplier_id = last.in.supplier_ids[k]

\* C5 (as claimed): every createInquiry call by a buyer that lists N supplier ids, a
\* list that repeats an id included, creates exactly N InquirySupplier rows with the new
\* inquiry's id, one per listed id.
C5_EveryListFansOut ==
    (last.op = "createInquiry" /\ ValidBuyer /\ AllListedAreSuppliers) => FannedOut

\* C5 (amended): a createInquiry call by a buyer that lists N distinct suppliers succeeds
\* and creates exactly N InquirySupplier rows with the new inquiry's id, one per listed
\* id; a call whose list repeats an id is rejected ('One or more suppliers not found')
\* and creates no inquiry and no InquirySupplier row.
C5_DistinctListFansOut ==
    /\ (last.op = "createInquiry" /\ ValidBuyer /\ AllListedAreSuppliers /\ ~ListRepeatsAnId)
          => (Succeeded(last) /\ FannedOut /\ last.out.id = Len(inquiries))
    /\ (last.op = "createInquiry" /\ Succeeded(last)) => FannedOut
    /\ (last.op = "createInquiry" /\ ValidBuyer /\ ListRepeatsAnId)
          => /\ Failed(last)
             /\ AllListedAreSuppliers => last.res = <<"One or more suppliers not found">>
             /\ inquiries = before.inquiries
             /\ inquirySuppliers = before.inquirySuppliers

\* an inquiry was fanned out to two suppliers
C5_Witness ==
    /\ last.op = "createInquiry"
    /\ Succeeded(last)
    /\ Len(last.in.supplier_ids) = 2
    /\ Len(inquirySuppliers) = Len(before.inquirySuppliers) + 2

\* C6: a createInquiry call whose list holds an id that does not exist or belongs to a
\* user who is not a supplier fails, and no Inquiry and no InquirySupplier row is added.
C6_BadSupplierAbortsBeforeWrites ==
    (last.op = "createInquiry" /\ ~AllListedAreSuppliers) =>
        /\ Failed(last)
        /\ inquiries = before.inquiries
        /\ inquirySuppliers = before.inquirySuppliers

\* a buyer listed a supplier together with an id that is no supplier's
C6_Witness ==
    /\ last.op = "createInquiry"
    /\ ValidBuyer
    /\ ~AllListedAreSuppliers
    /\ \E k \in 1..Len(last.in.supplier_ids) :
          /\ HasRow(before.users, last.in.supplier_ids[k])
          /\ before.users[last.in.supplier_ids[k]].role = "supplier"
    /\ Failed(last)

\* C7: a createInquiry or createQuote call that fails leaves no partial state: no inquiry
\* row without its fan-out rows, no quote row on an inquiry still marked pending.
C7_AllOrNothing ==
    \A p \in Procs :
        Failed(calls[p]) =>
            /\ calls[p].op = "createInquiry" =>
                  ~ /\ calls[p].loc.inquiry # null
                    /\ Cardinality({k \in 1..Len(inquirySuppliers) :
                            inquirySuppliers[k].inquiry_id = calls[p].loc.inquiry.id})
                         < Len(calls[p].in.supplier_ids)
            /\ calls[p].op = "createQuote" =>
                  ~ /\ calls[p].loc.quote \in 1..Len(quotes)
                    /\ inquiries[calls[p].in.inquiry_id].status = "pending"

\* p's call is a markMessageAsRead that returned a message
Marked(p) == calls[p].op = "markMessageAsRead" /\ Succeeded(calls[p])

\* C8: once a message's read_at is set no step changes or clears it, under any
\* interleaving of markMessageAsRead calls by any callers, and every markMessageAsRead
\* that returns, the first or a repeated one, returns that one stored read_at.
C8_ReadAtWrittenOnce ==
    /\ [][\A m \in 1..Len(messages) :
             messages[m].read_at # NULL => messages'[m].read_at = messages[m].read_at]_vars
    /\ [](\A p \in Procs :
             Marked(p) =>
                 /\ calls[p].out.read_at # NULL
                 /\ calls[p].out.read_at = messages[calls[p].in.messageId].read_at)

\* the recipient marked a message and, at a later time, marked it again
C8_Witness ==
    /\ Marked(1)
    /\ Marked(2)
    /\ calls[1].in = calls[2].in
    /\ now > messages[calls[1].in.messageId].read_at

\* C9: two markMessageAsRead calls by the recipient on the same message, in flight
\* together, both succeed and both return the read_at that is finally stored.
C9_ConcurrentMarksBothSucceed ==
    \A p, q \in Procs :
        ( /\ p # q
          /\ calls[p].op = "markMessageAsRead" /\ ~Running(calls[p])
          /\ calls[q].op = "markMessageAsRead" /\ ~Running(calls[q])
          /\ calls[p].in = calls[q].in
          /\ calls[p].in.messageId \in 1..Len(messages)
          /\ messages[calls[p].in.messageId].recipient_id = calls[p].in.userId
          /\ calls[p].res # <<"Message not found">>
          /\ calls[q].res # <<"Message not found">> )
        => /\ Succeeded(calls[p])
           /\ Succeeded(calls[q])
           /\ calls[p].out.read_at = calls[q].out.read_at
           /\ calls[p].out.read_at = messages[calls[p].in.messageId].read_at

\* C10: markMessageAsRead, run alone, fails with not-found when the message does not
\* exist and with not-authorized when the caller is not the message's recipient, read or
\* unread; the stored messages are unchanged in both cases.
C10_MarkRejections ==
    last.op = "markMessageAsRead" =>
        /\ ~(last.in.messageId \in 1..Len(before.messages)) =>
              /\ last.res = <<"Message not found">>
              /\ messages = before.messages
        /\ ( /\ last.in.messageId \in 1..Len(before.messages)
             /\ before.messages[last.in.messageId].recipient_id # last.in.userId )
           => /\ last.res = <<"User is not authorized to mark this message as read">>
              /\ messages = before.messages

\* the sender tried to mark a message that its recipient had already read
C10_Witness ==
    /\ last.op = "markMessageAsRead"
    /\ last.in.messageId \in 1..Len(before.messages)
    /\ before.messages[last.in.messageId].sender_id = last.in.userId
    /\ before.messages[last.in.messageId].recipient_id # last.in.userId
    /\ before.messages[last.in.messageId].read_at # NULL
    /\ Failed(last)

\* the store holds a rating of this rater for this rated user and inquiry
TripleStored(st, input) ==
    \E k \in 1..Len(st.ratings) :
        /\ st.ratings[k].rater_id = input.rater_id
        /\ st.ratings[k].rated_id = input.rated_id
        /\ st.ratings[k].inquiry_id = input.inquiry_id

\* rater and rated exist, one a buyer and the other a supplier
ValidPair(st, input) ==
    /\ HasRow(st.users, input.rater_id)
    /\ HasRow(st.users, input.rated_id)
    /\ st.users[input.rater_id].role # st.users[input.rated_id].role

\* the call stored its rating as the newest row and changed nothing else
RatingAppended ==
    /\ Succeeded(last)
    /\ Store = [before EXCEPT !.ratings = Append(@,
                   [rater_id |-> last.in.rater_id, rated_id |-> last.in.rated_id,
                    inquiry_id |-> last.in.inquiry_id, rating |-> last.in.rating])]

\* C11: createRating calls run one at a time.  A call that names an inquiry fails with
\* "rating already exists" exactly when a rating of the same rater, rated user and
\* inquiry is stored, so no two stored ratings share such a triple; a call for a valid
\* pair and an existing inquiry the pair has no rating for succeeds, and a call without
\* inquiry for a valid pair succeeds however many ratings the pair has.
C11_OneRatingPerTriple ==
    /\ \A j \in 1..Len(ratings), k \in 1..Len(ratings) :
           (/\ j # k
            /\ ratings[j].inquiry_id # NULL
            /\ ratings[j].rater_id = ratings[k].rater_id
            /\ ratings[j].rated_id = ratings[k].rated_id)
           => ratings[j].inquiry_id # ratings[k].inquiry_id
    /\ (last.op = "createRating" /\ ~Running(last)) =>
         /\ last.in.inquiry_id # NULL =>
              (last.res = <<"Rating already exists for this inquiry between these users">>
               <=> TripleStored(before, last.in))
         /\ (/\ last.in.inquiry_id # NULL
             /\ ValidPair(before, last.in)
             /\ HasRow(before.inquiries, last.in.inquiry_id)
             /\ ~TripleStored(before, last.in)) => RatingAppended
         /\ (last.in.inquiry_id = NULL /\ ValidPair(before, last.in)) => RatingAppended
         /\ Failed(last) => Store = before

\* a second rating of the same triple was refused after the pair had rated two inquiries
C11_Witness ==
    /\ last.op = "createRating"
    /\ last.res = <<"Rating already exists for this inquiry between these users">>
    /\ Len(ratings) = 2
    /\ ratings[1].rater_id = ratings[2].rater_id
    /\ ratings[1].rated_id = ratings[2].rated_id
    /\ ratings[1].inquiry_id # NULL
    /\ ratings[2].inquiry_id # NULL

\* C12: every stored rating joins two existing users of different roles; createRating
\* fails and inserts nothing when the rater or the rated user is missing, when both
\* have the same role, or when the inquiry it names does not exist.
C12_RatingsJoinBuyerAndSupplier ==
    /\ \A k \in 1..Len(ratings) :
           /\ HasRow(users, ratings[k].rater_id)
           /\ HasRow(users, ratings[k].rated_id)
           /\ {users[ratings[k].rater_id].role, users[ratings[k].rated_id].role}
                  = userRoleEnum
    /\ (/\ last.op = "createRating"
        /\ ~Running(last)
        /\ \/ ~HasRow(before.users, last.in.rater_id)
           \/ ~HasRow(before.users, last.in.rated_id)
           \/ before.users[last.in.rater_id].role = before.users[last.in.rated_id].role
           \/ last.in.inquiry_id # NULL /\ ~HasRow(before.inquiries, last.in.inquiry_id))
       => (Failed(last) /\ Store = before)

\* two distinct users of one role were refused while a rating is stored
C12_Witness ==
    /\ last.op = "createRating"
    /\ last.res = <<"Rater and rated users must have different roles">>
    /\ last.in.rater_id # last.in.rated_id
    /\ Len(ratings) > 0

\* C13: createSupplierProfile calls run one at a time.  The call fails and inserts
\* nothing when the user does not exist, is a buyer, or already has a profile; so every
\* stored profile belongs to a supplier and no user has two profiles.
C13_OneProfilePerSupplier ==
    /\ \A k \in 1..Len(supplierProfiles) :
           /\ HasRow(users, supplierProfiles[k].user_id)
           /\ users[supplierProfiles[k].user_id].role = "supplier"
    /\ \A j \in 1..Len(supplierProfiles), k \in 1..Len(supplierProfiles) :
           supplierProfiles[j].user_id = supplierProfiles[k].user_id => j = k
    /\ (/\ last.op = "createSupplierProfile"
        /\ ~Running(last)
        /\ \/ ~HasRow(before.users, last.in.user_id)
           \/ before.users[last.in.user_id].role = "buyer"
           \/ \E k \in 1..Len(before.supplierProfiles) :
                  before.supplierProfiles[k].user_id = last.in.user_id)
       => (Failed(last) /\ Store = before)

\* a supplier who has a profile (its lower price, under half a hundredth in the form,
\* stored as the amount 0.00 and its upper price rounded to 123.50) asked for a second
\* one and was refused
C13_Witness ==
    /\ last.op = "createSupplierProfile"
    /\ last.res = <<"Supplier profile already exists for user", last.in.user_id>>
    /\ \E k \in 1..Len(supplierProfiles) :
           /\ supplierProfiles[k].user_id = last.in.user_id
           /\ supplierProfiles[k].price_range_min = <<0>>
           /\ supplierProfiles[k].price_range_max = <<12350>>

\* C14: no two stored users share an email.  A createUser whose email is stored fails
\* with the unique-constraint error and inserts no row, one whose email is new adds
\* its row, the stored rows staying as they are in both cases, and of two createUser
\* calls in flight together with one email at most one succeeds.
C14_EmailsUnique ==
    /\ [](\A j \in 1..Len(users), k \in 1..Len(users) :
              (/\ users[j] # noRow
               /\ users[k] # noRow
               /\ users[j].email = users[k].email) => j = k)
    /\ [](\A p \in Procs, q \in Procs :
              (/\ p # q
               /\ calls[p].op = "createUser"
               /\ calls[q].op = "createUser"
               /\ calls[p].in.email = calls[q].in.email)
              => ~(Succeeded(calls[p]) /\ Succeeded(calls[q])))
    /\ [][\A p \in Procs :
              (calls[p].op = "createUser" /\ Running(calls[p]) /\ ~Running(calls'[p])) =>
                 IF \E k \in 1..Len(users) :
                        users[k] # noRow /\ users[k].email = calls[p].in.email
                 THEN /\ calls'[p].res = <<"duplicate key value violates unique constraint">>
                      /\ \A k \in 1..Len(users') :
                             users'[k] # noRow => (k <= Len(users) /\ users[k] # noRow)
                      /\ \A k \in 1..Len(users) : users'[k] = users[k]
                 ELSE /\ Succeeded(calls'[p])
                      /\ Len(users') = Len(users) + 1
                      /\ calls'[p].out = Len(users')
                      /\ users'[Len(users')].email = calls[p].in.email
                      /\ \A k \in 1..Len(users) : users'[k] = users[k]]_vars

\* two registrations with one email were in flight together: one stored its row, the
\* other was refused by the constraint
C14_Witness ==
    /\ calls[1].op = "createUser"
    /\ calls[2].op = "createUser"
    /\ calls[1].in.email = calls[2].in.email
    /\ Succeeded(calls[1])
    /\ calls[2].res = <<"duplicate key value violates unique constraint">>
    /\ Cardinality({k \in 1..Len(users) : users[k] # noRow}) = 1

\* C15: updateUserProfile on an existing user sets each of company_name, contact_person,
\* phone, location, description and website that the input carries to the input's value
\* (null included), keeps each one the input omits, and sets updated_at to the time the
\* handler read (never before the stored one); email,
\* password_hash, role and created_at stay, as do the other users' rows and the other
\* tables.  For an unknown id it fails with not-found and changes nothing.
C15_UpdateUserFrame ==
    (last.op = "updateUserProfile" /\ ~Running(last)) =>
        IF HasRow(before.users, last.in.id)
        THEN /\ Succeeded(last)
             /\ Store = [before EXCEPT !.users = users]
             /\ Len(users) = Len(before.users)
             /\ \A k \in 1..Len(users) : k # last.in.id => users[k] = before.users[k]
             /\ LET old == before.users[last.in.id]
                    new == users[last.in.id]
                IN /\ \A f \in {"company_name", "contact_person", "phone", "location",
                                "description", "website"} :
                          new[f] = IF f \in DOMAIN last.in THEN last.in[f] ELSE old[f]
                   /\ new.updated_at = last.loc.updated_at
                   /\ new.updated_at >= old.updated_at
                   /\ \A f \in {"email", "password_hash", "role", "created_at"} :
                          new[f] = old[f]
        ELSE /\ last.res = <<"User not found", last.in.id>>
             /\ Store = before

\* one of two users had the phone set to null and the location replaced, with the
\* company name omitted
C15_Witness ==
    /\ last.op = "updateUserProfile"
    /\ Succeeded(last)
    /\ Len(users) = 2
    /\ "phone" \in DOMAIN last.in
    /\ last.in.phone = NULL
    /\ before.users[last.in.id].phone # NULL
    /\ "location" \in DOMAIN last.in
    /\ last.in.location # before.users[last.in.id].location
    /\ "company_name" \notin DOMAIN last.in

\* C16: updateSupplierProfile on an existing profile sets each capability field the
\* input carries (a price to the amount in hundredths, which is an amount and not null
\* even when it is 0.00, or to null when the input gives null), keeps each one the input
\* omits, and sets updated_at to the time the handler
\* read (never before the stored one); user_id and
\* created_at stay, as do the other profiles and the other tables.  For an id that is
\* no profile it fails with not-found and changes nothing.
C16_UpdateSupplierFrame ==
    (last.op = "updateSupplierProfile" /\ ~Running(last)) =>
        IF HasRow(before.supplierProfiles, last.in.id)
        THEN /\ Succeeded(last)
             /\ Store = [before EXCEPT !.supplierProfiles = supplierProfiles]
             /\ Len(supplierProfiles) = Len(before.supplierProfiles)
             /\ \A k \in 1..Len(supplierProfiles) :
                    k # last.in.id => supplierProfiles[k] = before.supplierProfiles[k]
             /\ LET old == before.supplierProfiles[last.in.id]
                    new == supplierProfiles[last.in.id]
                IN /\ \A f \in {"packaging_types", "materials", "min_order_quantity",
                                "personalization_available", "delivery_time_days",
                                "certifications"} :
                          new[f] = IF f \in DOMAIN last.in THEN last.in[f] ELSE old[f]
                   /\ \A f \in {"price_range_min", "price_range_max"} :
                          IF f \notin DOMAIN last.in THEN new[f] = old[f]
                          ELSE IF last.in[f] = NULL THEN new[f] = <<>>
                          ELSE /\ Len(new[f]) = 1
                               /\ new[f][1] % 10 = 0
                               /\ new[f][1] - last.in[f] \in -5..5
                   /\ new.updated_at = last.loc.updated_at
                   /\ new.updated_at >= old.updated_at
                   /\ new.user_id = old.user_id
                   /\ new.created_at = old.created_at
        ELSE /\ last.res = <<"Supplier profile not found", last.in.id>>
             /\ Store = before

\* one of two profiles had its upper price set to null and its lower price, stored as
\* 70.00, replaced by one under half a hundredth, which is stored as the amount 0.00;
\* the materials were omitted
C16_Witness ==
    /\ last.op = "updateSupplierProfile"
    /\ Succeeded(last)
    /\ Len(supplierProfiles) = 2
    /\ "price_range_max" \in DOMAIN last.in
    /\ last.in.price_range_max = NULL
    /\ before.supplierProfiles[last.in.id].price_range_max = <<12350>>
    /\ supplierProfiles[last.in.id].price_range_max = <<>>
    /\ "price_range_min" \in DOMAIN last.in
    /\ last.in.price_range_min = 4
    /\ before.supplierProfiles[last.in.id].price_range_min = <<7000>>
    /\ supplierProfiles[last.in.id].price_range_min = <<0>>
    /\ "materials" \notin DOMAIN last.in

\* the ratings given to user u, and their sum
RatingsOf(u) == {k \in 1..Len(ratings) : ratings[k].rated_id = u}
RECURSIVE SumOver(_)
SumOver(rows) ==
    IF rows = {} THEN 0
    ELSE LET k == CHOOSE r \in rows : TRUE IN ratings[k].rating + SumOver(rows \ {k})

\* C17: getUserProfile(userId) returns null exactly when no user has the id.  Otherwise
\* the result has the user's columns; it has supplier_profile exactly when the user is a
\* supplier with a profile row (and it is that row); it has rating_stats exactly when
\* some rating names the user as rated, with total_ratings their number and
\* average_rating their mean (to the thousandth); a part that is absent is no key of
\* the result.  The store is left as it was.
C17_ProfileView ==
    (last.op = "getUserProfile" /\ ~Running(last)) =>
        /\ Succeeded(last)
        /\ Store = before
        /\ (last.out = null) <=> ~HasRow(users, last.in.userId)
        /\ HasRow(users, last.in.userId) =>
             LET u == last.in.userId
                 profiles == {k \in 1..Len(supplierProfiles) : supplierProfiles[k].user_id = u}
                 n == Cardinality(RatingsOf(u))
             IN /\ last.out.id = u
                /\ \A f \in DOMAIN users[u] : last.out[f] = users[u][f]
                /\ DOMAIN last.out \subseteq
                       DOMAIN users[u] \cup {"id", "supplier_profile", "rating_stats"}
                /\ "supplier_profile" \in DOMAIN last.out
                       <=> (users[u].role = "supplier" /\ profiles # {})
                /\ "supplier_profile" \in DOMAIN last.out =>
                       /\ last.out.supplier_profile.id \in profiles
                       /\ last.out.supplier_profile.user_id = u
                /\ "rating_stats" \in DOMAIN last.out <=> n > 0
                /\ "rating_stats" \in DOMAIN last.out =>
                       /\ last.out.rating_stats.total_ratings = n
                       /\ 2 * (last.out.rating_stats.average_rating * n
                                   - 1000 * SumOver(RatingsOf(u))) \in -n..n

\* a supplier with a profile and two different ratings was viewed
C17_Witness ==
    /\ last.op = "getUserProfile"
    /\ Succeeded(last)
    /\ last.out # null
    /\ "supplier_profile" \in DOMAIN last.out
    /\ "rating_stats" \in DOMAIN last.out
    /\ last.out.rating_stats.total_ratings = 2
    /\ last.out.rating_stats.average_rating = 3000

\* the string has a character that is no white space
NonBlank(s) == \E k \in 1..Len(s) : s[k] \notin WhiteSpace

\* the string is not empty and neither begins nor ends with white space
Trimmed(s) == s # <<>> /\ s[1] \notin WhiteSpace /\ s[Len(s)] \notin WhiteSpace

\* core is s without the white space at its two ends
PaddingRemoved(s, core) ==
    /\ Trimmed(core)
    /\ \E i \in 1..Len(s), j \in 1..Len(s) :
           /\ i <= j
           /\ SubSeq(s, i, j) = core
           /\ \A k \in 1..Len(s) : (k < i \/ k > j) => s[k] \in WhiteSpace

\* the file passes the checks on size, type, name and path
FileAccepted(input) ==
    /\ input.fileSize > 0
    /\ input.fileSize <= 10 * 1024 * 1024
    /\ input.mimeType \in ALLOWED_MIME_TYPES
    /\ NonBlank(input.filename)
    /\ NonBlank(input.filePath)

\* the optional id is left out (or 0, which the handler takes for left out)
LeftOut(id) == id \in {ABSENT, 0}

\* C18: every stored attachment refers to an inquiry or a message, and each reference it
\* has is to a stored row.  An upload with neither id fails with "either inquiry_id or
\* message_id must be provided"; an upload with an id of no stored row fails, with
\* not-found when the file passes the file checks (a name of white space alone does not:
\* it is answered "filename cannot be empty"); neither inserts anything.
C18_AttachmentsRefer ==
    /\ \A k \in 1..Len(fileAttachments) :
           /\ fileAttachments[k].inquiry_id # NULL \/ fileAttachments[k].message_id # NULL
           /\ fileAttachments[k].inquiry_id # NULL =>
                  HasRow(inquiries, fileAttachments[k].inquiry_id)
           /\ fileAttachments[k].message_id # NULL =>
                  HasRow(messages, fileAttachments[k].message_id)
    /\ (last.op = "uploadFileAttachment" /\ ~Running(last)) =>
         /\ (LeftOut(last.in.inquiryId) /\ LeftOut(last.in.messageId)) =>
              /\ last.res = <<"Either inquiry_id or message_id must be provided">>
              /\ Store = before
         /\ (\/ ~LeftOut(last.in.inquiryId) /\ ~HasRow(before.inquiries, last.in.inquiryId)
             \/ ~LeftOut(last.in.messageId) /\ ~HasRow(before.messages, last.in.messageId)) =>
              /\ Failed(last)
              /\ Store = before
              /\ FileAccepted(last.in) =>
                   last.res \in {<<"Inquiry not found", last.in.inquiryId>>,
                                 <<"Message not found", last.in.messageId>>}
              /\ ~NonBlank(last.in.filename) =>
                   last.res = <<"Filename cannot be empty">>

\* an upload of a well named file naming a stored inquiry and a message that is not
\* stored was refused while an attachment of a message alone is stored
C18_Witness ==
    /\ last.op = "uploadFileAttachment"
    /\ last.in.filename = <<"a">>
    /\ HasRow(inquiries, last.in.inquiryId)
    /\ last.res = <<"Message not found", last.in.messageId>>
    /\ Len(fileAttachments) = 1
    /\ fileAttachments[1].inquiry_id = NULL
    /\ fileAttachments[1].message_id # NULL

\* C19: a stored attachment has a size from 1 to 10*1024*1024 bytes, one of the ten
\* allowed types, and a name and a path that are not empty and carry no white space
\* (blank, tab, line break, no-break space and the like) at their ends.  An upload whose
\* size, type, name or path fails its check (a name or path of white space alone fails)
\* is refused with the error of the first failed check (size positive, size within the
\* bound, type, name, path) and leaves the table as it was; an accepted upload stores the
\* name and the path without the white space at their ends, what is inside kept.
C19_FileChecks ==
    /\ \A k \in 1..Len(fileAttachments) :
           /\ fileAttachments[k].file_size \in 1..(10 * 1024 * 1024)
           /\ fileAttachments[k].mime_type \in ALLOWED_MIME_TYPES
           /\ Trimmed(fileAttachments[k].filename)
           /\ Trimmed(fileAttachments[k].file_path)
    /\ (last.op = "uploadFileAttachment" /\ ~Running(last)) =>
         /\ ~FileAccepted(last.in) => (Failed(last) /\ Store = before)
         /\ ~(LeftOut(last.in.inquiryId) /\ LeftOut(last.in.messageId)) =>
              /\ last.in.fileSize <= 0 =>
                   last.res = <<"File size must be greater than 0">>
              /\ last.in.fileSize > 10 * 1024 * 1024 =>
                   last.res = <<"File size exceeds maximum allowed size of 10MB">>
              /\ (/\ last.in.fileSize \in 1..(10 * 1024 * 1024)
                  /\ last.in.mimeType \notin ALLOWED_MIME_TYPES) =>
                   last.res = <<"File type is not allowed", last.in.mimeType>>
              /\ (/\ last.in.fileSize \in 1..(10 * 1024 * 1024)
                  /\ last.in.mimeType \in ALLOWED_MIME_TYPES
                  /\ ~NonBlank(last.in.filename)) =>
                   last.res = <<"Filename cannot be empty">>
              /\ (/\ last.in.fileSize \in 1..(10 * 1024 * 1024)
                  /\ last.in.mimeType \in ALLOWED_MIME_TYPES
                  /\ NonBlank(last.in.filename)
                  /\ ~NonBlank(last.in.filePath)) =>
                   last.res = <<"File path cannot be empty">>
         /\ Succeeded(last) =>
              /\ FileAccepted(last.in)
              /\ Len(fileAttachments) = Len(before.fileAttachments) + 1
              /\ LET row == fileAttachments[Len(fileAttachments)]
                 IN /\ PaddingRemoved(last.in.filename, row.filename)
                    /\ PaddingRemoved(last.in.filePath, row.file_path)
                    /\ row.file_size = last.in.fileSize
                    /\ row.mime_type = last.in.mimeType

\* a file of exactly the largest size allowed, its name padded with a tab and a line
\* feed and its path with a no-break space, was stored under the name and the path
\* without them, the blank inside the path kept
C19_Witness ==
    /\ last.op = "uploadFileAttachment"
    /\ Succeeded(last)
    /\ last.in.fileSize = 10 * 1024 * 1024
    /\ last.in.filename = <<"\t", "a", "\n">>
    /\ fileAttachments[Len(fileAttachments)].filename = <<"a">>
    /\ last.in.filePath = <<"U+00A0", "a", " ", "b">>
    /\ fileAttachments[Len(fileAttachments)].file_path = <<"a", " ", "b">>

\* C20: getMessagesForUser(u) returns the stored messages that u sent or received, each
\* once (one that u sent to u included), newest first by sent_at, and no other message;
\* the store is left as it was.
C20_MessagesOfUser ==
    (last.op = "getMessagesForUser" /\ ~Running(last)) =>
        LET u == last.in.userId
            mine == {k \in 1..Len(messages) :
                        messages[k].sender_id = u \/ messages[k].recipient_id = u}
        IN /\ Succeeded(last)
           /\ Store = before
           /\ {last.out[i].id : i \in 1..Len(last.out)} = mine
           /\ Len(last.out) = Cardinality(mine)
           /\ \A i \in 1..Len(last.out) :
                  \A f \in DOMAIN messages[last.out[i].id] :
                      last.out[i][f] = messages[last.out[i].id][f]
           /\ \A i \in 1..Len(last.out), j \in 1..Len(last.out) :
                  i < j => last.out[i].sent_at >= last.out[j].sent_at

\* a user who wrote to themselves and later to someone else sees both, the later first
C20_Witness ==
    /\ last.op = "getMessagesForUser"
    /\ Succeeded(last)
    /\ Len(last.out) = 2
    /\ last.out[1].id = 2
    /\ last.out[1].sent_at > last.out[2].sent_at
    /\ last.out[2].sender_id = last.out[2].recipient_id

\* the filters of a search form that the profile row k of a supplier satisfies
\* (the forms drawn supply the order-quantity and the personalization filter)
SatisfiesFilters(k, f) ==
    /\ "max_min_order_quantity" \in DOMAIN f
          => supplierProfiles[k].min_order_quantity <= f.max_min_order_quantity
    /\ "personalization_required" \in DOMAIN f
          => supplierProfiles[k].personalization_available = f.personalization_required

\* the suppliers a search has to return
MatchingSuppliers(f) ==
    {u \in 1..Len(users) :
        /\ users[u] # noRow
        /\ users[u].role = "supplier"
        /\ \E k \in 1..Len(supplierProfiles) :
               supplierProfiles[k].user_id = u /\ SatisfiesFilters(k, f)}

\* C21: searchSuppliers returns exactly the supplier users whose profile satisfies
\* every supplied filter (the filters combined as a logical AND), and leaves the
\* store as it was.
C21_SearchReturnsMatches ==
    (last.op = "searchSuppliers" /\ ~Running(last)) =>
        /\ Succeeded(last)
        /\ Store = before
        /\ {last.out[i].id : i \in 1..Len(last.out)} = MatchingSuppliers(last.in)
        /\ \A i, j \in 1..Len(last.out) : last.out[i].id = last.out[j].id => i = j

\* C22: createMessage inserts a message only if the sender exists, the recipient exists
\* and, when inquiry_id is not null, that inquiry exists; otherwise it fails, the sender
\* checked first, then the recipient, then the inquiry, and the store is unchanged; the
\* message it inserts has read_at null and every other stored message is as it was.
C22_MessageReferences ==
    (last.op = "createMessage" /\ ~Running(last)) =>
        LET senderExists == HasRow(before.users, last.in.sender_id)
            recipientExists == HasRow(before.users, last.in.recipient_id)
            inquiryExists == \/ last.in.inquiry_id = NULL
                             \/ last.in.inquiry_id \in 1..Len(before.inquiries)
        IN /\ ~senderExists => last.res = <<"Sender does not exist">>
           /\ (senderExists /\ ~recipientExists) => last.res = <<"Recipient does not exist">>
           /\ (senderExists /\ recipientExists /\ ~inquiryExists)
                 => last.res = <<"Inquiry does not exist">>
           /\ Failed(last) => Store = before
           /\ Succeeded(last) <=> (senderExists /\ recipientExists /\ inquiryExists)
           /\ Succeeded(last) =>
                 /\ Len(messages) = Len(before.messages) + 1
                 /\ SubSeq(messages, 1, Len(before.messages)) = before.messages
                 /\ messages[Len(messages)].sender_id = last.in.sender_id
                 /\ messages[Len(messages)].recipient_id = last.in.recipient_id
                 /\ messages[Len(messages)].inquiry_id = last.in.inquiry_id
                 /\ messages[Len(messages)].read_at = NULL
                 /\ [Store EXCEPT !.messages = before.messages] = before

\* a message about an existing inquiry was stored, unread
C22_Witness ==
    /\ last.op = "createMessage"
    /\ Succeeded(last)
    /\ last.in.inquiry_id \in 1..Len(before.inquiries)
    /\ last.in.sender_id # last.in.recipient_id
    /\ messages[Len(messages)].inquiry_id = last.in.inquiry_id
    /\ messages[Len(messages)].read_at = NULL

\* the request p is a createQuote call that performs its INSERT in this step
InsertsQuote(p) ==
    /\ calls[p].op = "createQuote"
    /\ calls[p].pc = "insertQuote"
    /\ calls[p].resp = <<>>
    /\ calls'[p].pc # "insertQuote" \/ calls'[p].resp # <<>>

\* C23: quotes are immutable: no step of any request changes or deletes a stored quote
\* row; the quotes change only by the INSERT of a createQuote call, which adds exactly
\* one row (the call's inquiry and supplier) after the existing ones, and every
\* createQuote call that succeeds has made that INSERT.
C23_QuotesImmutable ==
    /\ [][ /\ Len(quotes') >= Len(quotes)
           /\ SubSeq(quotes', 1, Len(quotes)) = quotes
           /\ (\E p \in Procs : InsertsQuote(p)) => Len(quotes') = Len(quotes) + 1
           /\ quotes' # quotes =>
                 \E p \in Procs :
                     /\ InsertsQuote(p)
                     /\ quotes'[Len(quotes')].inquiry_id = calls[p].in.inquiry_id
                     /\ quotes'[Len(quotes')].supplier_id = calls[p].in.supplier_id ]_vars
    /\ [](\A p \in Procs :
            (calls[p].op = "createQuote" /\ Succeeded(calls[p])) =>
                /\ calls[p].out \in 1..Len(quotes)
                /\ quotes[calls[p].out].inquiry_id = calls[p].in.inquiry_id
                /\ quotes[calls[p].out].supplier_id = calls[p].in.supplier_id)

\* two quotes are stored and a status update and a createQuote call have both finished
C23_Witness ==
    /\ Len(quotes) = 2
    /\ \E p, q \in Procs :
           /\ calls[p].op = "createQuote" /\ Succeeded(calls[p]) /\ calls[p].out = 2
           /\ calls[q].op = "updateInquiryStatus" /\ Succeeded(calls[q])

\* the store st holds an invitation of supplier s to inquiry i
Invited(st, i, s) ==
    \E k \in 1..Len(st.inquirySuppliers) :
        st.inquirySuppliers[k] = [inquiry_id |-> i, supplier_id |-> s]

\* the ids of the inquiries a list holds
IdsOf(list) == {list[k].id : k \in 1..Len(list)}

\* C24: the invitations seen by reads and those enforced on writes agree: an inquiry I
\* is in getInquiriesForSupplier(S) if and only if S is invited to I, createQuote by an
\* existing supplier S on an existing inquiry I passes the "was sent this inquiry" check
\* if and only if S is invited to I, and S is invited to I exactly when the createInquiry
\* call that created I listed S (invitations are written by createInquiry alone, for
\* its own inquiry); getInquiriesForSupplier(S) returns no inquiry that was not sent to S.
C24_InvitationsAgree ==
    /\ [](last.op = "getInquiriesForSupplier" =>
            /\ Succeeded(last)
            /\ Store = before
            /\ IdsOf(last.out) \subseteq 1..Len(inquiries)
            /\ \A i \in 1..Len(inquiries) :
                   i \in IdsOf(last.out) <=> Invited(before, i, last.in.supplierId))
    /\ []((/\ last.op = "createQuote"
           /\ HasRow(before.users, last.in.supplier_id)
           /\ before.users[last.in.supplier_id].role = "supplier"
           /\ last.in.inquiry_id \in 1..Len(before.inquiries)) =>
            /\ Invited(before, last.in.inquiry_id, last.in.supplier_id) <=> Succeeded(last)
            /\ ~Invited(before, last.in.inquiry_id, last.in.supplier_id)
                  <=> last.res = <<"Supplier was not sent inquiry">>)
    /\ []((last.op = "createInquiry" /\ Succeeded(last)) =>
            /\ last.out.id = Len(inquiries)
            /\ \A s \in UserIds :
                   Invited(Store, last.out.id, s)
                       <=> \E k \in 1..Len(last.in.supplier_ids) : last.in.supplier_ids[k] = s
            /\ SubSeq(inquirySuppliers, 1, Len(before.inquirySuppliers))
                   = before.inquirySuppliers
            /\ \A k \in (Len(before.inquirySuppliers) + 1)..Len(inquirySuppliers) :
                   inquirySuppliers[k].inquiry_id = last.out.id)
    /\ [][inquirySuppliers' # inquirySuppliers =>
              (calls'[1].op = "createInquiry" /\ Succeeded(calls'[1]))]_vars

\* of two inquiries a supplier was sent one: it is the one the supplier is shown, and
\* the supplier has quoted on it
C24_Witness ==
    /\ last.op = "getInquiriesForSupplier"
    /\ Len(inquiries) = 2
    /\ Len(inquirySuppliers) >= 2
    /\ Len(last.out) = 1
    /\ \E k \in 1..Len(quotes) :
           /\ quotes[k].inquiry_id = last.out[1].id
           /\ quotes[k].supplier_id = last.in.supplierId

\* C25: under every interleaving of two createRating calls carrying the same rater,
\* rated user and (non-null) inquiry, at most one rating for that triple is stored.
C25_OneRatingPerTripleConcurrent ==
    \A j, k \in 1..Len(ratings) :
        ( /\ ratings[j].inquiry_id # NULL
          /\ ratings[j].rater_id = ratings[k].rater_id
          /\ ratings[j].rated_id = ratings[k].rated_id
          /\ ratings[j].inquiry_id = ratings[k].inquiry_id ) => j = k

\* C26: under every interleaving of two createSupplierProfile calls for the same
\* supplier, at most one supplier profile exists for that user (the relation between
\* supplier profiles and users stays one-to-one).
C26_OneProfilePerSupplierConcurrent ==
    \A j, k \in 1..Len(supplierProfiles) :
        supplierProfiles[j].user_id = supplierProfiles[k].user_id => j = k

\* C27: in every state in which no createQuote call is in progress, every inquiry with
\* at least one stored quote has status responded or closed, never pending.
C27_QuotedInquiryNotPending ==
    (\A p \in Procs : ~(calls[p].op = "createQuote" /\ Running(calls[p]))) =>
        \A k \in 1..Len(quotes) : inquiries[quotes[k].inquiry_id].status # "pending"

\* both requests are finished createQuote calls, by two different suppliers invited
\* to the same inquiry (sent, and so pending, before either call began)
TwoQuotesOnOneInquiry ==
    /\ \A p \in QuotingProcs : calls[p].op = "createQuote" /\ ~Running(calls[p])
    /\ calls[1].in.inquiry_id = calls[2].in.inquiry_id
    /\ calls[1].in.supplier_id # calls[2].in.supplier_id
    /\ calls[1].in.inquiry_id \in 1..Len(inquiries)
    /\ \A p \in QuotingProcs : Invited(Store, calls[p].in.inquiry_id, calls[p].in.supplier_id)

\* C28: when two createQuote calls by two different invited suppliers run together on
\* one pending inquiry, under every interleaving both calls succeed, two quote rows are
\* stored, one of each call, and the inquiry's status is responded in the end.
C28_ConcurrentQuotes ==
    TwoQuotesOnOneInquiry =>
        /\ \A p \in QuotingProcs :
               /\ Succeeded(calls[p])
               /\ calls[p].out \in 1..Len(quotes)
               /\ quotes[calls[p].out].inquiry_id = calls[p].in.inquiry_id
               /\ quotes[calls[p].out].supplier_id = calls[p].in.supplier_id
        /\ calls[1].out # calls[2].out
        /\ Len(quotes) = 2
        /\ inquiries[calls[1].in.inquiry_id].status = "responded"

\* both calls read the inquiry while it was pending, and both have finished
C28_Witness ==
    /\ TwoQuotesOnOneInquiry
    /\ \A p \in QuotingProcs : calls[p].loc.status = "pending" /\ Succeeded(calls[p])
    /\ Len(quotes) = 2

\* C29: the InquirySupplier rows never hold the same (inquiry_id, supplier_id) twice: a
\* createInquiry call by a buyer whose list repeats an id is rejected by the found-count
\* check before any write, and getInquiriesForSupplier returns each inquiry at most once.
C29_NoRepeatedInvitation ==
    /\ \A j, k \in 1..Len(inquirySuppliers) :
           inquirySuppliers[j] = inquirySuppliers[k] => j = k
    /\ (last.op = "createInquiry" /\ ListRepeatsAnId) =>
           /\ Failed(last)
           /\ ValidBuyer => last.res = <<"One or more suppliers not found">>
           /\ Store = before
    /\ last.op = "getInquiriesForSupplier" =>
           \A j, k \in 1..Len(last.out) : last.out[j].id = last.out[k].id => j = k

\* a buyer listed one supplier twice and was refused, with the invitations of an
\* earlier inquiry in the store
C29_Witness ==
    /\ last.op = "createInquiry"
    /\ ValidBuyer
    /\ AllListedAreSuppliers
    /\ ListRepeatsAnId
    /\ Failed(last)
    /\ \E s \in UserIds : Invited(Store, 1, s)

\* the user u of the store is registered with this role
HasRole(u, role) == u \in 1..Len(users) /\ users[u] # noRow /\ users[u].role = role

\* C30: in every reachable state every inquiry's buyer_id is an existing buyer and the
\* supplier_id of every InquirySupplier row and of every quote is an existing supplier;
\* no step removes a user or changes a user's role.
C30_RoleConsistentReferences ==
    /\ [](/\ \A k \in 1..Len(inquiries) : HasRole(inquiries[k].buyer_id, "buyer")
          /\ \A k \in 1..Len(inquirySuppliers) :
                 HasRole(inquirySuppliers[k].supplier_id, "supplier")
          /\ \A k \in 1..Len(quotes) : HasRole(quotes[k].supplier_id, "supplier"))
    /\ [][/\ Len(users') >= Len(users)
          /\ \A u \in 1..Len(users) : users'[u] = noRow <=> users[u] = noRow
          /\ \A u \in 1..Len(users) :
                 users[u] # noRow => users'[u].role = users[u].role]_vars

\* a buyer's inquiry went to two suppliers and both have quoted
C30_Witness ==
    /\ Len(inquirySuppliers) = 2
    /\ Len(quotes) = 2
    /\ quotes[1].supplier_id # quotes[2].supplier_id
    /\ \E p \in Procs : calls[p].op = "createQuote" /\ Succeeded(calls[p])

====
